---- MODULE Spec2Model ----
\* Model of the workshop notebooks: the four notebook documents held by the
\* three .ipynb files, and a Jupyter kernel executing their code cells.
\*
\* A code cell is a record [first, last, syntaxOK, stmts]: the file lines of
\* its source, whether the source parses as Python, and its top-level
\* statements in order.  A statement is a record
\*   line    file line of the statement
\*   kind    Import | Assign | Expr | Magic | FunctionDef | For
\*   reads   the global names the statement loads
\*   writes  the global names the statement binds
\*   file    the data file a loader call of the statement opens, or "none"
\*   magic   the backend named by a %matplotlib magic, or "none"
\*   op      FrozenPhonons | Potential | multislice | diffraction_pattern.mean
\*   arg     the potential / configuration name the op is applied to
\*   n       num_configs of a FrozenPhonons call
\*   arith   the statement contains an arithmetic operator
\*   control the statement contains if / while / try / with / lambda / class
EXTENDS Integers, Sequences, FiniteSets, TLC

\* code cells of src/Getting_started/00_jupyter_matplotlib.ipynb, lines 1-269
JupyterMatplotlibCells ==
  <<
    [first |-> 58, last |-> 58, syntaxOK |-> TRUE, stmts |-> <<
       [line |-> 58, kind |-> "Expr", reads |-> {}, writes |-> {},
        file |-> "none", magic |-> "none", op |-> "none", arg |-> "none", n |-> 0,
        arith |-> FALSE, control |-> FALSE] >>],
    [first |-> 95, last |-> 96, syntaxOK |-> TRUE, stmts |-> <<
       [line |-> 96, kind |-> "Import", reads |-> {}, writes |-> {"plt"},
        file |-> "none", magic |-> "none", op |-> "none", arg |-> "none", n |-> 0,
        arith |-> FALSE, control |-> FALSE] >>],
    [first |-> 109, last |-> 110, syntaxOK |-> TRUE, stmts |-> <<
       [line |-> 110, kind |-> "Expr", reads |-> {"plt"}, writes |-> {},
        file |-> "none", magic |-> "none", op |-> "none", arg |-> "none", n |-> 0,
        arith |-> FALSE, control |-> FALSE] >>],
    [first |-> 130, last |-> 131, syntaxOK |-> TRUE, stmts |-> <<
       [line |-> 131, kind |-> "Magic", reads |-> {}, writes |-> {},
        file |-> "none", magic |-> "qt5", op |-> "none", arg |-> "none", n |-> 0,
        arith |-> FALSE, control |-> FALSE] >>],
    [first |-> 143, last |-> 143, syntaxOK |-> TRUE, stmts |-> <<
       [line |-> 143, kind |-> "Expr", reads |-> {"plt"}, writes |-> {},
        file |-> "none", magic |-> "none", op |-> "none", arg |-> "none", n |-> 0,
        arith |-> FALSE, control |-> FALSE] >>],
    [first |-> 206, last |-> 207, syntaxOK |-> TRUE, stmts |-> <<
       [line |-> 207, kind |-> "Magic", reads |-> {}, writes |-> {},
        file |-> "none", magic |-> "notebook", op |-> "none", arg |-> "none", n |-> 0,
        arith |-> FALSE, control |-> FALSE] >>],
    [first |-> 227, last |-> 227, syntaxOK |-> TRUE, stmts |-> <<
       [line |-> 227, kind |-> "Expr", reads |-> {"plt"}, writes |-> {},
        file |-> "none", magic |-> "none", op |-> "none", arg |-> "none", n |-> 0,
        arith |-> FALSE, control |-> FALSE] >>],
    [first |-> 244, last |-> 244, syntaxOK |-> TRUE, stmts |-> << >>]
  >>

\* code cells of src/particlespy_demo/particlespy_unfilled_2023.ipynb, lines 1-612
ParticlespyCells ==
  <<
    [first |-> 49, last |-> 58, syntaxOK |-> TRUE, stmts |-> <<
       [line |-> 49, kind |-> "Import", reads |-> {}, writes |-> {"hs"},
        file |-> "none", magic |-> "none", op |-> "none", arg |-> "none", n |-> 0,
        arith |-> FALSE, control |-> FALSE],
       [line |-> 50, kind |-> "Import", reads |-> {}, writes |-> {"ps"},
        file |-> "none", magic |-> "none", op |-> "none", arg |-> "none", n |-> 0,
        arith |-> FALSE, control |-> FALSE],
       [line |-> 51, kind |-> "Import", reads |-> {}, writes |-> {"tp"},
        file |-> "none", magic |-> "none", op |-> "none", arg |-> "none", n |-> 0,
        arith |-> FALSE, control |-> FALSE],
       [line |-> 52, kind |-> "Import", reads |-> {}, writes |-> {"plt"},
        file |-> "none", magic |-> "none", op |-> "none", arg |-> "none", n |-> 0,
        arith |-> FALSE, control |-> FALSE],
       [line |-> 54, kind |-> "Assign", reads |-> {}, writes |-> {"filename"},
        file |-> "none", magic |-> "none", op |-> "none", arg |-> "none", n |-> 0,
        arith |-> FALSE, control |-> FALSE],
       [line |-> 55, kind |-> "Assign", reads |-> {"filename", "hs"}, writes |-> {"haadf"},
        file |-> "SiO2 HAADF Image.hspy", magic |-> "none", op |-> "none", arg |-> "none", n |-> 0,
        arith |-> FALSE, control |-> FALSE],
       [line |-> 57, kind |-> "Magic", reads |-> {}, writes |-> {},
        file |-> "none", magic |-> "notebook", op |-> "none", arg |-> "none", n |-> 0,
        arith |-> FALSE, control |-> FALSE],
       [line |-> 58, kind |-> "Expr", reads |-> {"haadf"}, writes |-> {},
        file |-> "none", magic |-> "none", op |-> "none", arg |-> "none", n |-> 0,
        arith |-> FALSE, control |-> FALSE] >>],
    [first |-> 74, last |-> 75, syntaxOK |-> FALSE, stmts |-> << >>],
    [first |-> 91, last |-> 91, syntaxOK |-> FALSE, stmts |-> << >>],
    [first |-> 113, last |-> 113, syntaxOK |-> FALSE, stmts |-> << >>],
    [first |-> 137, last |-> 138, syntaxOK |-> FALSE, stmts |-> << >>],
    [first |-> 154, last |-> 157, syntaxOK |-> FALSE, stmts |-> << >>],
    [first |-> 173, last |-> 173, syntaxOK |-> FALSE, stmts |-> << >>],
    [first |-> 193, last |-> 193, syntaxOK |-> TRUE, stmts |-> <<
       [line |-> 193, kind |-> "Expr", reads |-> {"particles"}, writes |-> {},
        file |-> "none", magic |-> "none", op |-> "none", arg |-> "none", n |-> 0,
        arith |-> FALSE, control |-> FALSE] >>],
    [first |-> 217, last |-> 217, syntaxOK |-> FALSE, stmts |-> << >>],
    [first |-> 233, last |-> 233, syntaxOK |-> TRUE, stmts |-> <<
       [line |-> 233, kind |-> "Expr", reads |-> {"particles"}, writes |-> {},
        file |-> "none", magic |-> "none", op |-> "none", arg |-> "none", n |-> 0,
        arith |-> FALSE, control |-> FALSE] >>],
    [first |-> 268, last |-> 269, syntaxOK |-> TRUE, stmts |-> <<
       [line |-> 268, kind |-> "Assign", reads |-> {}, writes |-> {"eds_filename"},
        file |-> "none", magic |-> "none", op |-> "none", arg |-> "none", n |-> 0,
        arith |-> FALSE, control |-> FALSE],
       [line |-> 269, kind |-> "Assign", reads |-> {"eds_filename", "hs"}, writes |-> {"eds"},
        file |-> "SiO2 EDS Spectrum Image.hspy", magic |-> "none", op |-> "none", arg |-> "none", n |-> 0,
        arith |-> FALSE, control |-> FALSE] >>],
    [first |-> 293, last |-> 293, syntaxOK |-> TRUE, stmts |-> <<
       [line |-> 293, kind |-> "Assign", reads |-> {"eds", "haadf"}, writes |-> {"ac"},
        file |-> "none", magic |-> "none", op |-> "none", arg |-> "none", n |-> 0,
        arith |-> FALSE, control |-> FALSE] >>],
    [first |-> 317, last |-> 317, syntaxOK |-> TRUE, stmts |-> <<
       [line |-> 317, kind |-> "Expr", reads |-> {"params"}, writes |-> {},
        file |-> "none", magic |-> "none", op |-> "none", arg |-> "none", n |-> 0,
        arith |-> FALSE, control |-> FALSE] >>],
    [first |-> 341, last |-> 341, syntaxOK |-> FALSE, stmts |-> << >>],
    [first |-> 365, last |-> 365, syntaxOK |-> FALSE, stmts |-> << >>],
    [first |-> 389, last |-> 389, syntaxOK |-> FALSE, stmts |-> << >>],
    [first |-> 405, last |-> 405, syntaxOK |-> FALSE, stmts |-> << >>],
    [first |-> 414, last |-> 414, syntaxOK |-> FALSE, stmts |-> << >>],
    [first |-> 437, last |-> 437, syntaxOK |-> TRUE, stmts |-> <<
       [line |-> 437, kind |-> "Assign", reads |-> {"hs"}, writes |-> {"series"},
        file |-> "particle_series.dm4", magic |-> "none", op |-> "none", arg |-> "none", n |-> 0,
        arith |-> FALSE, control |-> FALSE] >>],
    [first |-> 446, last |-> 446, syntaxOK |-> TRUE, stmts |-> <<
       [line |-> 446, kind |-> "Expr", reads |-> {"series"}, writes |-> {},
        file |-> "none", magic |-> "none", op |-> "none", arg |-> "none", n |-> 0,
        arith |-> FALSE, control |-> FALSE] >>],
    [first |-> 462, last |-> 462, syntaxOK |-> FALSE, stmts |-> << >>],
    [first |-> 471, last |-> 471, syntaxOK |-> TRUE, stmts |-> <<
       [line |-> 471, kind |-> "Expr", reads |-> {"params_series"}, writes |-> {},
        file |-> "none", magic |-> "none", op |-> "none", arg |-> "none", n |-> 0,
        arith |-> FALSE, control |-> FALSE] >>],
    [first |-> 487, last |-> 487, syntaxOK |-> FALSE, stmts |-> << >>],
    [first |-> 496, last |-> 496, syntaxOK |-> FALSE, stmts |-> << >>],
    [first |-> 512, last |-> 512, syntaxOK |-> FALSE, stmts |-> << >>],
    [first |-> 535, last |-> 535, syntaxOK |-> TRUE, stmts |-> <<
       [line |-> 535, kind |-> "Expr", reads |-> {"plt"}, writes |-> {},
        file |-> "none", magic |-> "none", op |-> "none", arg |-> "none", n |-> 0,
        arith |-> FALSE, control |-> FALSE] >>],
    [first |-> 551, last |-> 551, syntaxOK |-> FALSE, stmts |-> << >>],
    [first |-> 560, last |-> 560, syntaxOK |-> FALSE, stmts |-> << >>],
    [first |-> 576, last |-> 579, syntaxOK |-> TRUE, stmts |-> <<
       [line |-> 576, kind |-> "Import", reads |-> {}, writes |-> {"plt"},
        file |-> "none", magic |-> "none", op |-> "none", arg |-> "none", n |-> 0,
        arith |-> FALSE, control |-> FALSE],
       [line |-> 577, kind |-> "Expr", reads |-> {"plt"}, writes |-> {},
        file |-> "none", magic |-> "none", op |-> "none", arg |-> "none", n |-> 0,
        arith |-> FALSE, control |-> FALSE],
       [line |-> 578, kind |-> "For", reads |-> {"plt", "tm"}, writes |-> {"index", "particle"},
        file |-> "none", magic |-> "none", op |-> "none", arg |-> "none", n |-> 0,
        arith |-> FALSE, control |-> FALSE] >>],
    [first |-> 587, last |-> 587, syntaxOK |-> TRUE, stmts |-> << >>]
  >>

\* code cells of src/pyxem/pyxemTutorial.ipynb, lines 1-1500
PyxemCells ==
  <<
    [first |-> 135, last |-> 140, syntaxOK |-> TRUE, stmts |-> <<
       [line |-> 137, kind |-> "Import", reads |-> {}, writes |-> {"hyperspy"},
        file |-> "none", magic |-> "none", op |-> "none", arg |-> "none", n |-> 0,
        arith |-> FALSE, control |-> FALSE],
       [line |-> 138, kind |-> "Expr", reads |-> {"hyperspy"}, writes |-> {},
        file |-> "none", magic |-> "none", op |-> "none", arg |-> "none", n |-> 0,
        arith |-> FALSE, control |-> FALSE],
       [line |-> 139, kind |-> "Import", reads |-> {}, writes |-> {"pyxem"},
        file |-> "none", magic |-> "none", op |-> "none", arg |-> "none", n |-> 0,
        arith |-> FALSE, control |-> FALSE],
       [line |-> 140, kind |-> "Expr", reads |-> {"pyxem"}, writes |-> {},
        file |-> "none", magic |-> "none", op |-> "none", arg |-> "none", n |-> 0,
        arith |-> FALSE, control |-> FALSE] >>],
    [first |-> 149, last |-> 155, syntaxOK |-> TRUE, stmts |-> <<
       [line |-> 150, kind |-> "Magic", reads |-> {}, writes |-> {},
        file |-> "none", magic |-> "qt5", op |-> "none", arg |-> "none", n |-> 0,
        arith |-> FALSE, control |-> FALSE],
       [line |-> 153, kind |-> "Import", reads |-> {}, writes |-> {"hs"},
        file |-> "none", magic |-> "none", op |-> "none", arg |-> "none", n |-> 0,
        arith |-> FALSE, control |-> FALSE],
       [line |-> 154, kind |-> "Import", reads |-> {}, writes |-> {"pxm"},
        file |-> "none", magic |-> "none", op |-> "none", arg |-> "none", n |-> 0,
        arith |-> FALSE, control |-> FALSE],
       [line |-> 155, kind |-> "Import", reads |-> {}, writes |-> {"np"},
        file |-> "none", magic |-> "none", op |-> "none", arg |-> "none", n |-> 0,
        arith |-> FALSE, control |-> FALSE] >>],
    [first |-> 164, last |-> 168, syntaxOK |-> TRUE, stmts |-> <<
       [line |-> 166, kind |-> "Import", reads |-> {}, writes |-> {"Client"},
        file |-> "none", magic |-> "none", op |-> "none", arg |-> "none", n |-> 0,
        arith |-> FALSE, control |-> FALSE],
       [line |-> 167, kind |-> "Assign", reads |-> {"Client"}, writes |-> {"client"},
        file |-> "none", magic |-> "none", op |-> "none", arg |-> "none", n |-> 0,
        arith |-> FALSE, control |-> FALSE],
       [line |-> 168, kind |-> "Expr", reads |-> {"client"}, writes |-> {},
        file |-> "none", magic |-> "none", op |-> "none", arg |-> "none", n |-> 0,
        arith |-> FALSE, control |-> FALSE] >>],
    [first |-> 202, last |-> 203, syntaxOK |-> TRUE, stmts |-> <<
       [line |-> 202, kind |-> "Import", reads |-> {}, writes |-> {"hs"},
        file |-> "none", magic |-> "none", op |-> "none", arg |-> "none", n |-> 0,
        arith |-> FALSE, control |-> FALSE],
       [line |-> 203, kind |-> "Assign", reads |-> {"hs"}, writes |-> {"dp"},
        file |-> "data/mgo_nanoparticles.zspy", magic |-> "none", op |-> "none", arg |-> "none", n |-> 0,
        arith |-> FALSE, control |-> FALSE] >>],
    [first |-> 212, last |-> 213, syntaxOK |-> TRUE, stmts |-> << >>],
    [first |-> 224, last |-> 224, syntaxOK |-> TRUE, stmts |-> << >>],
    [first |-> 235, last |-> 235, syntaxOK |-> TRUE, stmts |-> << >>],
    [first |-> 252, last |-> 252, syntaxOK |-> TRUE, stmts |-> << >>],
    [first |-> 260, last |-> 265, syntaxOK |-> TRUE, stmts |-> << >>],
    [first |-> 275, last |-> 275, syntaxOK |-> TRUE, stmts |-> << >>],
    [first |-> 284, last |-> 284, syntaxOK |-> TRUE, stmts |-> << >>],
    [first |-> 298, last |-> 298, syntaxOK |-> TRUE, stmts |-> << >>],
    [first |-> 312, last |-> 312, syntaxOK |-> TRUE, stmts |-> << >>],
    [first |-> 327, last |-> 331, syntaxOK |-> TRUE, stmts |-> <<
       [line |-> 327, kind |-> "Expr", reads |-> {"dp"}, writes |-> {},
        file |-> "none", magic |-> "none", op |-> "none", arg |-> "none", n |-> 0,
        arith |-> FALSE, control |-> FALSE] >>],
    [first |-> 346, last |-> 346, syntaxOK |-> TRUE, stmts |-> << >>],
    [first |-> 374, last |-> 374, syntaxOK |-> TRUE, stmts |-> << >>],
    [first |-> 385, last |-> 385, syntaxOK |-> TRUE, stmts |-> << >>],
    [first |-> 396, last |-> 396, syntaxOK |-> TRUE, stmts |-> << >>],
    [first |-> 407, last |-> 407, syntaxOK |-> TRUE, stmts |-> << >>],
    [first |-> 418, last |-> 418, syntaxOK |-> TRUE, stmts |-> << >>],
    [first |-> 433, last |-> 433, syntaxOK |-> TRUE, stmts |-> << >>],
    [first |-> 452, last |-> 455, syntaxOK |-> TRUE, stmts |-> <<
       [line |-> 452, kind |-> "Assign", reads |-> {}, writes |-> {"scale"},
        file |-> "none", magic |-> "none", op |-> "none", arg |-> "none", n |-> 0,
        arith |-> FALSE, control |-> FALSE],
       [line |-> 453, kind |-> "Assign", reads |-> {}, writes |-> {"scale_real"},
        file |-> "none", magic |-> "none", op |-> "none", arg |-> "none", n |-> 0,
        arith |-> FALSE, control |-> FALSE],
       [line |-> 454, kind |-> "Expr", reads |-> {"dp", "scale"}, writes |-> {},
        file |-> "none", magic |-> "none", op |-> "none", arg |-> "none", n |-> 0,
        arith |-> FALSE, control |-> FALSE],
       [line |-> 455, kind |-> "Expr", reads |-> {"dp", "scale_real"}, writes |-> {},
        file |-> "none", magic |-> "none", op |-> "none", arg |-> "none", n |-> 0,
        arith |-> FALSE, control |-> FALSE] >>],
    [first |-> 464, last |-> 464, syntaxOK |-> TRUE, stmts |-> << >>],
    [first |-> 503, last |-> 503, syntaxOK |-> TRUE, stmts |-> << >>],
    [first |-> 514, last |-> 514, syntaxOK |-> TRUE, stmts |-> << >>],
    [first |-> 525, last |-> 525, syntaxOK |-> TRUE, stmts |-> << >>],
    [first |-> 536, last |-> 536, syntaxOK |-> TRUE, stmts |-> << >>],
    [first |-> 547, last |-> 547, syntaxOK |-> TRUE, stmts |-> << >>],
    [first |-> 558, last |-> 558, syntaxOK |-> TRUE, stmts |-> << >>],
    [first |-> 567, last |-> 567, syntaxOK |-> TRUE, stmts |-> << >>],
    [first |-> 583, last |-> 583, syntaxOK |-> TRUE, stmts |-> << >>],
    [first |-> 594, last |-> 594, syntaxOK |-> TRUE, stmts |-> << >>],
    [first |-> 603, last |-> 603, syntaxOK |-> TRUE, stmts |-> << >>],
    [first |-> 612, last |-> 612, syntaxOK |-> TRUE, stmts |-> << >>],
    [first |-> 637, last |-> 637, syntaxOK |-> TRUE, stmts |-> << >>],
    [first |-> 648, last |-> 648, syntaxOK |-> TRUE, stmts |-> << >>],
    [first |-> 659, last |-> 659, syntaxOK |-> TRUE, stmts |-> << >>],
    [first |-> 670, last |-> 670, syntaxOK |-> TRUE, stmts |-> << >>],
    [first |-> 681, last |-> 681, syntaxOK |-> TRUE, stmts |-> << >>],
    [first |-> 704, last |-> 709, syntaxOK |-> TRUE, stmts |-> <<
       [line |-> 704, kind |-> "Assign", reads |-> {"hs"}, writes |-> {"reg"},
        file |-> "none", magic |-> "none", op |-> "none", arg |-> "none", n |-> 0,
        arith |-> FALSE, control |-> FALSE],
       [line |-> 708, kind |-> "Expr", reads |-> {"dp"}, writes |-> {},
        file |-> "none", magic |-> "none", op |-> "none", arg |-> "none", n |-> 0,
        arith |-> FALSE, control |-> FALSE],
       [line |-> 709, kind |-> "Expr", reads |-> {"dp", "reg"}, writes |-> {},
        file |-> "none", magic |-> "none", op |-> "none", arg |-> "none", n |-> 0,
        arith |-> FALSE, control |-> FALSE] >>],
    [first |-> 718, last |-> 718, syntaxOK |-> TRUE, stmts |-> << >>],
    [first |-> 727, last |-> 727, syntaxOK |-> TRUE, stmts |-> << >>],
    [first |-> 736, last |-> 736, syntaxOK |-> TRUE, stmts |-> << >>],
    [first |-> 770, last |-> 770, syntaxOK |-> TRUE, stmts |-> << >>],
    [first |-> 781, last |-> 782, syntaxOK |-> TRUE, stmts |-> <<
       [line |-> 782, kind |-> "Expr", reads |-> {"dpc"}, writes |-> {},
        file |-> "none", magic |-> "none", op |-> "none", arg |-> "none", n |-> 0,
        arith |-> FALSE, control |-> FALSE] >>],
    [first |-> 793, last |-> 793, syntaxOK |-> TRUE, stmts |-> << >>],
    [first |-> 804, last |-> 804, syntaxOK |-> TRUE, stmts |-> << >>],
    [first |-> 813, last |-> 813, syntaxOK |-> TRUE, stmts |-> << >>],
    [first |-> 824, last |-> 824, syntaxOK |-> TRUE, stmts |-> << >>],
    [first |-> 858, last |-> 866, syntaxOK |-> TRUE, stmts |-> <<
       [line |-> 860, kind |-> "Assign", reads |-> {"dp"}, writes |-> {"peaks"},
        file |-> "none", magic |-> "none", op |-> "none", arg |-> "none", n |-> 0,
        arith |-> FALSE, control |-> FALSE] >>],
    [first |-> 882, last |-> 882, syntaxOK |-> TRUE, stmts |-> <<
       [line |-> 882, kind |-> "Import", reads |-> {}, writes |-> {"DiffractionVectors"},
        file |-> "none", magic |-> "none", op |-> "none", arg |-> "none", n |-> 0,
        arith |-> FALSE, control |-> FALSE] >>],
    [first |-> 892, last |-> 892, syntaxOK |-> TRUE, stmts |-> << >>],
    [first |-> 902, last |-> 903, syntaxOK |-> TRUE, stmts |-> <<
       [line |-> 903, kind |-> "Assign", reads |-> {"DiffractionVectors", "dp", "peaks"}, writes |-> {"dv"},
        file |-> "none", magic |-> "none", op |-> "none", arg |-> "none", n |-> 0,
        arith |-> FALSE, control |-> FALSE] >>],
    [first |-> 919, last |-> 919, syntaxOK |-> TRUE, stmts |-> << >>],
    [first |-> 930, last |-> 936, syntaxOK |-> TRUE, stmts |-> <<
       [line |-> 931, kind |-> "Assign", reads |-> {}, writes |-> {"distance_threshold"},
        file |-> "none", magic |-> "none", op |-> "none", arg |-> "none", n |-> 0,
        arith |-> FALSE, control |-> FALSE],
       [line |-> 932, kind |-> "Assign", reads |-> {}, writes |-> {"min_samples"},
        file |-> "none", magic |-> "none", op |-> "none", arg |-> "none", n |-> 0,
        arith |-> FALSE, control |-> FALSE],
       [line |-> 933, kind |-> "Assign", reads |-> {"distance_threshold", "dv", "min_samples"}, writes |-> {"unique_peaks"},
        file |-> "none", magic |-> "none", op |-> "none", arg |-> "none", n |-> 0,
        arith |-> FALSE, control |-> FALSE],
       [line |-> 936, kind |-> "Expr", reads |-> {"np", "unique_peaks"}, writes |-> {},
        file |-> "none", magic |-> "none", op |-> "none", arg |-> "none", n |-> 0,
        arith |-> FALSE, control |-> FALSE] >>],
    [first |-> 947, last |-> 950, syntaxOK |-> TRUE, stmts |-> <<
       [line |-> 948, kind |-> "Assign", reads |-> {"np", "unique_peaks"}, writes |-> {"unique_peaks"},
        file |-> "none", magic |-> "none", op |-> "none", arg |-> "none", n |-> 0,
        arith |-> FALSE, control |-> FALSE],
       [line |-> 950, kind |-> "Expr", reads |-> {"np", "unique_peaks"}, writes |-> {},
        file |-> "none", magic |-> "none", op |-> "none", arg |-> "none", n |-> 0,
        arith |-> FALSE, control |-> FALSE] >>],
    [first |-> 961, last |-> 961, syntaxOK |-> TRUE, stmts |-> << >>],
    [first |-> 972, last |-> 972, syntaxOK |-> TRUE, stmts |-> << >>],
    [first |-> 983, last |-> 983, syntaxOK |-> TRUE, stmts |-> << >>],
    [first |-> 993, last |-> 993, syntaxOK |-> TRUE, stmts |-> << >>],
    [first |-> 1003, last |-> 1009, syntaxOK |-> TRUE, stmts |-> <<
       [line |-> 1003, kind |-> "Assign", reads |-> {}, writes |-> {"min_distance"},
        file |-> "none", magic |-> "none", op |-> "none", arg |-> "none", n |-> 0,
        arith |-> FALSE, control |-> FALSE],
       [line |-> 1004, kind |-> "Assign", reads |-> {}, writes |-> {"min_size"},
        file |-> "none", magic |-> "none", op |-> "none", arg |-> "none", n |-> 0,
        arith |-> FALSE, control |-> FALSE],
       [line |-> 1005, kind |-> "Assign", reads |-> {}, writes |-> {"max_size"},
        file |-> "none", magic |-> "none", op |-> "none", arg |-> "none", n |-> 0,
        arith |-> FALSE, control |-> FALSE],
       [line |-> 1006, kind |-> "Assign", reads |-> {}, writes |-> {"max_number_of_grains"},
        file |-> "none", magic |-> "none", op |-> "none", arg |-> "none", n |-> 0,
        arith |-> FALSE, control |-> FALSE],
       [line |-> 1007, kind |-> "Assign", reads |-> {}, writes |-> {"marker_radius"},
        file |-> "none", magic |-> "none", op |-> "none", arg |-> "none", n |-> 0,
        arith |-> FALSE, control |-> FALSE],
       [line |-> 1008, kind |-> "Assign", reads |-> {}, writes |-> {"exclude_border"},
        file |-> "none", magic |-> "none", op |-> "none", arg |-> "none", n |-> 0,
        arith |-> FALSE, control |-> FALSE],
       [line |-> 1009, kind |-> "Assign", reads |-> {}, writes |-> {"threshold"},
        file |-> "none", magic |-> "none", op |-> "none", arg |-> "none", n |-> 0,
        arith |-> FALSE, control |-> FALSE] >>],
    [first |-> 1020, last |-> 1027, syntaxOK |-> TRUE, stmts |-> <<
       [line |-> 1021, kind |-> "Import", reads |-> {}, writes |-> {"separate_watershed"},
        file |-> "none", magic |-> "none", op |-> "none", arg |-> "none", n |-> 0,
        arith |-> FALSE, control |-> FALSE],
       [line |-> 1022, kind |-> "Assign", reads |-> {}, writes |-> {"i"},
        file |-> "none", magic |-> "none", op |-> "none", arg |-> "none", n |-> 0,
        arith |-> FALSE, control |-> FALSE],
       [line |-> 1023, kind |-> "Assign", reads |-> {"VDFs", "exclude_border", "i", "marker_radius", "max_number_of_grains", "max_size", "min_distance", "min_size", "separate_watershed", "threshold"}, writes |-> {"sep_i"},
        file |-> "none", magic |-> "none", op |-> "none", arg |-> "none", n |-> 0,
        arith |-> FALSE, control |-> FALSE] >>],
    [first |-> 1037, last |-> 1037, syntaxOK |-> TRUE, stmts |-> << >>],
    [first |-> 1047, last |-> 1054, syntaxOK |-> TRUE, stmts |-> <<
       [line |-> 1048, kind |-> "Assign", reads |-> {"VDFs", "exclude_border", "marker_radius", "max_number_of_grains", "max_size", "min_distance", "min_size", "threshold"}, writes |-> {"segs"},
        file |-> "none", magic |-> "none", op |-> "none", arg |-> "none", n |-> 0,
        arith |-> FALSE, control |-> FALSE] >>],
    [first |-> 1065, last |-> 1065, syntaxOK |-> TRUE, stmts |-> << >>],
    [first |-> 1083, last |-> 1083, syntaxOK |-> TRUE, stmts |-> << >>],
    [first |-> 1101, last |-> 1103, syntaxOK |-> TRUE, stmts |-> <<
       [line |-> 1101, kind |-> "Assign", reads |-> {}, writes |-> {"corr_threshold"},
        file |-> "none", magic |-> "none", op |-> "none", arg |-> "none", n |-> 0,
        arith |-> FALSE, control |-> FALSE],
       [line |-> 1102, kind |-> "Assign", reads |-> {}, writes |-> {"vector_threshold"},
        file |-> "none", magic |-> "none", op |-> "none", arg |-> "none", n |-> 0,
        arith |-> FALSE, control |-> FALSE],
       [line |-> 1103, kind |-> "Assign", reads |-> {}, writes |-> {"segment_threshold"},
        file |-> "none", magic |-> "none", op |-> "none", arg |-> "none", n |-> 0,
        arith |-> FALSE, control |-> FALSE] >>],
    [first |-> 1114, last |-> 1117, syntaxOK |-> TRUE, stmts |-> <<
       [line |-> 1114, kind |-> "Assign", reads |-> {"corr_threshold", "segment_threshold", "segs", "vector_threshold"}, writes |-> {"corrsegs"},
        file |-> "none", magic |-> "none", op |-> "none", arg |-> "none", n |-> 0,
        arith |-> FALSE, control |-> FALSE],
       [line |-> 1117, kind |-> "Expr", reads |-> {"corrsegs", "np"}, writes |-> {},
        file |-> "none", magic |-> "none", op |-> "none", arg |-> "none", n |-> 0,
        arith |-> FALSE, control |-> FALSE] >>],
    [first |-> 1128, last |-> 1128, syntaxOK |-> TRUE, stmts |-> << >>],
    [first |-> 1153, last |-> 1154, syntaxOK |-> TRUE, stmts |-> <<
       [line |-> 1154, kind |-> "Assign", reads |-> {"dp"}, writes |-> {"dp_slic"},
        file |-> "none", magic |-> "none", op |-> "none", arg |-> "none", n |-> 0,
        arith |-> FALSE, control |-> FALSE] >>],
    [first |-> 1163, last |-> 1166, syntaxOK |-> TRUE, stmts |-> <<
       [line |-> 1164, kind |-> "Assign", reads |-> {"dp_slic"}, writes |-> {"dp_slic"},
        file |-> "none", magic |-> "none", op |-> "none", arg |-> "none", n |-> 0,
        arith |-> FALSE, control |-> FALSE] >>],
    [first |-> 1175, last |-> 1176, syntaxOK |-> TRUE, stmts |-> << >>],
    [first |-> 1187, last |-> 1191, syntaxOK |-> TRUE, stmts |-> <<
       [line |-> 1188, kind |-> "Import", reads |-> {}, writes |-> {"diffpy"},
        file |-> "none", magic |-> "none", op |-> "none", arg |-> "none", n |-> 0,
        arith |-> FALSE, control |-> FALSE],
       [line |-> 1189, kind |-> "Import", reads |-> {}, writes |-> {"StructureLibrary"},
        file |-> "none", magic |-> "none", op |-> "none", arg |-> "none", n |-> 0,
        arith |-> FALSE, control |-> FALSE],
       [line |-> 1190, kind |-> "Import", reads |-> {}, writes |-> {"DiffractionGenerator"},
        file |-> "none", magic |-> "none", op |-> "none", arg |-> "none", n |-> 0,
        arith |-> FALSE, control |-> FALSE],
       [line |-> 1191, kind |-> "Import", reads |-> {}, writes |-> {"DiffractionLibraryGenerator"},
        file |-> "none", magic |-> "none", op |-> "none", arg |-> "none", n |-> 0,
        arith |-> FALSE, control |-> FALSE] >>],
    [first |-> 1202, last |-> 1206, syntaxOK |-> TRUE, stmts |-> <<
       [line |-> 1203, kind |-> "Import", reads |-> {}, writes |-> {"get_beam_directions_grid"},
        file |-> "none", magic |-> "none", op |-> "none", arg |-> "none", n |-> 0,
        arith |-> FALSE, control |-> FALSE],
       [line |-> 1204, kind |-> "Assign", reads |-> {}, writes |-> {"resolution"},
        file |-> "none", magic |-> "none", op |-> "none", arg |-> "none", n |-> 0,
        arith |-> FALSE, control |-> FALSE],
       [line |-> 1205, kind |-> "Assign", reads |-> {"get_beam_directions_grid", "resolution"}, writes |-> {"grid_cub"},
        file |-> "none", magic |-> "none", op |-> "none", arg |-> "none", n |-> 0,
        arith |-> FALSE, control |-> FALSE],
       [line |-> 1206, kind |-> "Expr", reads |-> {"grid_cub"}, writes |-> {},
        file |-> "none", magic |-> "none", op |-> "none", arg |-> "none", n |-> 0,
        arith |-> FALSE, control |-> FALSE] >>],
    [first |-> 1217, last |-> 1223, syntaxOK |-> TRUE, stmts |-> <<
       [line |-> 1219, kind |-> "Assign", reads |-> {"dp"}, writes |-> {"diffraction_calibration"},
        file |-> "none", magic |-> "none", op |-> "none", arg |-> "none", n |-> 0,
        arith |-> FALSE, control |-> FALSE],
       [line |-> 1220, kind |-> "Assign", reads |-> {"dp"}, writes |-> {"half_shape"},
        file |-> "none", magic |-> "none", op |-> "none", arg |-> "none", n |-> 0,
        arith |-> TRUE, control |-> FALSE],
       [line |-> 1222, kind |-> "Assign", reads |-> {"diffraction_calibration", "half_shape", "np"}, writes |-> {"reciprocal_radius"},
        file |-> "none", magic |-> "none", op |-> "none", arg |-> "none", n |-> 0,
        arith |-> TRUE, control |-> FALSE],
       [line |-> 1223, kind |-> "Expr", reads |-> {"reciprocal_radius"}, writes |-> {},
        file |-> "none", magic |-> "none", op |-> "none", arg |-> "none", n |-> 0,
        arith |-> FALSE, control |-> FALSE] >>],
    [first |-> 1234, last |-> 1257, syntaxOK |-> TRUE, stmts |-> <<
       [line |-> 1235, kind |-> "Assign", reads |-> {"diffpy"}, writes |-> {"structure_matrix"},
        file |-> "data/MgO.cif", magic |-> "none", op |-> "none", arg |-> "none", n |-> 0,
        arith |-> FALSE, control |-> FALSE],
       [line |-> 1238, kind |-> "Assign", reads |-> {"DiffractionGenerator"}, writes |-> {"diff_gen"},
        file |-> "none", magic |-> "none", op |-> "none", arg |-> "none", n |-> 0,
        arith |-> FALSE, control |-> FALSE],
       [line |-> 1245, kind |-> "Assign", reads |-> {"DiffractionLibraryGenerator", "diff_gen"}, writes |-> {"lib_gen"},
        file |-> "none", magic |-> "none", op |-> "none", arg |-> "none", n |-> 0,
        arith |-> FALSE, control |-> FALSE],
       [line |-> 1249, kind |-> "Assign", reads |-> {"StructureLibrary", "grid_cub", "structure_matrix"}, writes |-> {"library_phases_mgo"},
        file |-> "none", magic |-> "none", op |-> "none", arg |-> "none", n |-> 0,
        arith |-> FALSE, control |-> FALSE],
       [line |-> 1252, kind |-> "Assign", reads |-> {"diffraction_calibration", "half_shape", "lib_gen", "library_phases_mgo"}, writes |-> {"diff_lib_mgo"},
        file |-> "none", magic |-> "none", op |-> "none", arg |-> "none", n |-> 0,
        arith |-> FALSE, control |-> FALSE] >>],
    [first |-> 1268, last |-> 1268, syntaxOK |-> TRUE, stmts |-> <<
       [line |-> 1268, kind |-> "Import", reads |-> {}, writes |-> {"iutls"},
        file |-> "none", magic |-> "none", op |-> "none", arg |-> "none", n |-> 0,
        arith |-> FALSE, control |-> FALSE] >>],
    [first |-> 1279, last |-> 1286, syntaxOK |-> TRUE, stmts |-> <<
       [line |-> 1279, kind |-> "Assign", reads |-> {}, writes |-> {"delta_r"},
        file |-> "none", magic |-> "none", op |-> "none", arg |-> "none", n |-> 0,
        arith |-> FALSE, control |-> FALSE],
       [line |-> 1280, kind |-> "Assign", reads |-> {}, writes |-> {"delta_theta"},
        file |-> "none", magic |-> "none", op |-> "none", arg |-> "none", n |-> 0,
        arith |-> FALSE, control |-> FALSE],
       [line |-> 1281, kind |-> "Assign", reads |-> {}, writes |-> {"max_r"},
        file |-> "none", magic |-> "none", op |-> "none", arg |-> "none", n |-> 0,
        arith |-> FALSE, control |-> FALSE],
       [line |-> 1282, kind |-> "Assign", reads |-> {}, writes |-> {"intensity_transform_function"},
        file |-> "none", magic |-> "none", op |-> "none", arg |-> "none", n |-> 0,
        arith |-> FALSE, control |-> FALSE],
       [line |-> 1283, kind |-> "Assign", reads |-> {}, writes |-> {"find_direct_beam"},
        file |-> "none", magic |-> "none", op |-> "none", arg |-> "none", n |-> 0,
        arith |-> FALSE, control |-> FALSE],
       [line |-> 1284, kind |-> "Assign", reads |-> {}, writes |-> {"direct_beam_position"},
        file |-> "none", magic |-> "none", op |-> "none", arg |-> "none", n |-> 0,
        arith |-> FALSE, control |-> FALSE],
       [line |-> 1285, kind |-> "Assign", reads |-> {}, writes |-> {"normalize_image"},
        file |-> "none", magic |-> "none", op |-> "none", arg |-> "none", n |-> 0,
        arith |-> FALSE, control |-> FALSE],
       [line |-> 1286, kind |-> "Assign", reads |-> {}, writes |-> {"normalize_templates"},
        file |-> "none", magic |-> "none", op |-> "none", arg |-> "none", n |-> 0,
        arith |-> FALSE, control |-> FALSE] >>],
    [first |-> 1297, last |-> 1315, syntaxOK |-> TRUE, stmts |-> <<
       [line |-> 1297, kind |-> "Assign", reads |-> {}, writes |-> {"frac_keep"},
        file |-> "none", magic |-> "none", op |-> "none", arg |-> "none", n |-> 0,
        arith |-> FALSE, control |-> FALSE],
       [line |-> 1298, kind |-> "Assign", reads |-> {}, writes |-> {"n_keep"},
        file |-> "none", magic |-> "none", op |-> "none", arg |-> "none", n |-> 0,
        arith |-> FALSE, control |-> FALSE],
       [line |-> 1302, kind |-> "Assign", reads |-> {}, writes |-> {"n_best"},
        file |-> "none", magic |-> "none", op |-> "none", arg |-> "none", n |-> 0,
        arith |-> FALSE, control |-> FALSE],
       [line |-> 1303, kind |-> "Assign", reads |-> {"delta_r", "delta_theta", "diff_lib_mgo", "dp_slic", "frac_keep", "intensity_transform_function", "iutls", "n_best", "n_keep", "normalize_image", "normalize_templates"}, writes |-> {"phasedict", "result"},
        file |-> "none", magic |-> "none", op |-> "none", arg |-> "none", n |-> 0,
        arith |-> FALSE, control |-> FALSE] >>],
    [first |-> 1326, last |-> 1378, syntaxOK |-> TRUE, stmts |-> <<
       [line |-> 1327, kind |-> "Assign", reads |-> {"result"}, writes |-> {"solution"},
        file |-> "none", magic |-> "none", op |-> "none", arg |-> "none", n |-> 0,
        arith |-> FALSE, control |-> FALSE],
       [line |-> 1329, kind |-> "Import", reads |-> {}, writes |-> {"mcolors"},
        file |-> "none", magic |-> "none", op |-> "none", arg |-> "none", n |-> 0,
        arith |-> FALSE, control |-> FALSE],
       [line |-> 1330, kind |-> "Import", reads |-> {}, writes |-> {"plt"},
        file |-> "none", magic |-> "none", op |-> "none", arg |-> "none", n |-> 0,
        arith |-> FALSE, control |-> FALSE],
       [line |-> 1331, kind |-> "Import", reads |-> {}, writes |-> {"StereographicProjection"},
        file |-> "none", magic |-> "none", op |-> "none", arg |-> "none", n |-> 0,
        arith |-> FALSE, control |-> FALSE],
       [line |-> 1334, kind |-> "FunctionDef", reads |-> {}, writes |-> {"to_fundamental"},
        file |-> "none", magic |-> "none", op |-> "none", arg |-> "none", n |-> 0,
        arith |-> FALSE, control |-> FALSE],
       [line |-> 1343, kind |-> "FunctionDef", reads |-> {}, writes |-> {"get_ipf_color"},
        file |-> "none", magic |-> "none", op |-> "none", arg |-> "none", n |-> 0,
        arith |-> TRUE, control |-> FALSE],
       [line |-> 1359, kind |-> "Import", reads |-> {}, writes |-> {"Rotation"},
        file |-> "none", magic |-> "none", op |-> "none", arg |-> "none", n |-> 0,
        arith |-> FALSE, control |-> FALSE],
       [line |-> 1360, kind |-> "Import", reads |-> {}, writes |-> {"Vector3d"},
        file |-> "none", magic |-> "none", op |-> "none", arg |-> "none", n |-> 0,
        arith |-> FALSE, control |-> FALSE],
       [line |-> 1363, kind |-> "Assign", reads |-> {"plt", "solution"}, writes |-> {"ax", "fig"},
        file |-> "none", magic |-> "none", op |-> "none", arg |-> "none", n |-> 0,
        arith |-> FALSE, control |-> FALSE],
       [line |-> 1365, kind |-> "For", reads |-> {"Rotation", "Vector3d", "ax", "get_ipf_color", "np", "solution", "to_fundamental"}, writes |-> {"i", "solution_vectors_x", "solution_vectors_y", "solution_vectors_z"},
        file |-> "none", magic |-> "none", op |-> "none", arg |-> "none", n |-> 0,
        arith |-> TRUE, control |-> FALSE],
       [line |-> 1374, kind |-> "Expr", reads |-> {"ax"}, writes |-> {},
        file |-> "none", magic |-> "none", op |-> "none", arg |-> "none", n |-> 0,
        arith |-> FALSE, control |-> FALSE],
       [line |-> 1375, kind |-> "Expr", reads |-> {"ax"}, writes |-> {},
        file |-> "none", magic |-> "none", op |-> "none", arg |-> "none", n |-> 0,
        arith |-> FALSE, control |-> FALSE],
       [line |-> 1376, kind |-> "Expr", reads |-> {"ax"}, writes |-> {},
        file |-> "none", magic |-> "none", op |-> "none", arg |-> "none", n |-> 0,
        arith |-> FALSE, control |-> FALSE],
       [line |-> 1378, kind |-> "Expr", reads |-> {"fig"}, writes |-> {},
        file |-> "none", magic |-> "none", op |-> "none", arg |-> "none", n |-> 0,
        arith |-> FALSE, control |-> FALSE] >>]
  >>

\* code cells of src/pyxem/pyxemTutorial.ipynb, lines 1502-2404
AbtemCells ==
  <<
    [first |-> 1540, last |-> 1550, syntaxOK |-> TRUE, stmts |-> <<
       [line |-> 1540, kind |-> "Magic", reads |-> {}, writes |-> {},
        file |-> "none", magic |-> "qt5", op |-> "none", arg |-> "none", n |-> 0,
        arith |-> FALSE, control |-> FALSE],
       [line |-> 1542, kind |-> "Import", reads |-> {}, writes |-> {"ase"},
        file |-> "none", magic |-> "none", op |-> "none", arg |-> "none", n |-> 0,
        arith |-> FALSE, control |-> FALSE],
       [line |-> 1543, kind |-> "Import", reads |-> {}, writes |-> {"np"},
        file |-> "none", magic |-> "none", op |-> "none", arg |-> "none", n |-> 0,
        arith |-> FALSE, control |-> FALSE],
       [line |-> 1544, kind |-> "Import", reads |-> {}, writes |-> {"plt"},
        file |-> "none", magic |-> "none", op |-> "none", arg |-> "none", n |-> 0,
        arith |-> FALSE, control |-> FALSE],
       [line |-> 1546, kind |-> "Import", reads |-> {}, writes |-> {"ab"},
        file |-> "none", magic |-> "none", op |-> "none", arg |-> "none", n |-> 0,
        arith |-> FALSE, control |-> FALSE],
       [line |-> 1548, kind |-> "Expr", reads |-> {"np"}, writes |-> {},
        file |-> "none", magic |-> "none", op |-> "none", arg |-> "none", n |-> 0,
        arith |-> FALSE, control |-> FALSE],
       [line |-> 1550, kind |-> "Expr", reads |-> {"ab"}, writes |-> {},
        file |-> "none", magic |-> "none", op |-> "none", arg |-> "none", n |-> 0,
        arith |-> FALSE, control |-> FALSE] >>],
    [first |-> 1570, last |-> 1574, syntaxOK |-> TRUE, stmts |-> <<
       [line |-> 1570, kind |-> "Assign", reads |-> {"ase"}, writes |-> {"atoms"},
        file |-> "sto_lto.cif", magic |-> "none", op |-> "none", arg |-> "none", n |-> 0,
        arith |-> FALSE, control |-> FALSE],
       [line |-> 1572, kind |-> "Assign", reads |-> {"plt"}, writes |-> {"ax1", "ax2", "fig"},
        file |-> "none", magic |-> "none", op |-> "none", arg |-> "none", n |-> 0,
        arith |-> FALSE, control |-> FALSE],
       [line |-> 1573, kind |-> "Expr", reads |-> {"ab", "atoms", "ax1"}, writes |-> {},
        file |-> "none", magic |-> "none", op |-> "none", arg |-> "none", n |-> 0,
        arith |-> FALSE, control |-> FALSE],
       [line |-> 1574, kind |-> "Expr", reads |-> {"ab", "atoms", "ax2"}, writes |-> {},
        file |-> "none", magic |-> "none", op |-> "none", arg |-> "none", n |-> 0,
        arith |-> FALSE, control |-> FALSE] >>],
    [first |-> 1597, last |-> 1597, syntaxOK |-> TRUE, stmts |-> <<
       [line |-> 1597, kind |-> "Assign", reads |-> {"ab", "atoms"}, writes |-> {"potential"},
        file |-> "none", magic |-> "none", op |-> "Potential", arg |-> "atoms", n |-> 0,
        arith |-> FALSE, control |-> FALSE] >>],
    [first |-> 1615, last |-> 1615, syntaxOK |-> TRUE, stmts |-> <<
       [line |-> 1615, kind |-> "Assign", reads |-> {"potential"}, writes |-> {"potential_array"},
        file |-> "none", magic |-> "none", op |-> "none", arg |-> "none", n |-> 0,
        arith |-> FALSE, control |-> FALSE] >>],
    [first |-> 1625, last |-> 1625, syntaxOK |-> TRUE, stmts |-> <<
       [line |-> 1625, kind |-> "Expr", reads |-> {"potential_array"}, writes |-> {},
        file |-> "none", magic |-> "none", op |-> "none", arg |-> "none", n |-> 0,
        arith |-> FALSE, control |-> FALSE] >>],
    [first |-> 1643, last |-> 1643, syntaxOK |-> TRUE, stmts |-> <<
       [line |-> 1643, kind |-> "Expr", reads |-> {"potential_array"}, writes |-> {},
        file |-> "none", magic |-> "none", op |-> "none", arg |-> "none", n |-> 0,
        arith |-> FALSE, control |-> FALSE] >>],
    [first |-> 1661, last |-> 1661, syntaxOK |-> TRUE, stmts |-> <<
       [line |-> 1661, kind |-> "Assign", reads |-> {"potential_array"}, writes |-> {"potential_signal"},
        file |-> "none", magic |-> "none", op |-> "none", arg |-> "none", n |-> 0,
        arith |-> FALSE, control |-> FALSE] >>],
    [first |-> 1671, last |-> 1671, syntaxOK |-> TRUE, stmts |-> <<
       [line |-> 1671, kind |-> "Expr", reads |-> {"potential_signal"}, writes |-> {},
        file |-> "none", magic |-> "none", op |-> "none", arg |-> "none", n |-> 0,
        arith |-> FALSE, control |-> FALSE] >>],
    [first |-> 1689, last |-> 1689, syntaxOK |-> TRUE, stmts |-> <<
       [line |-> 1689, kind |-> "Expr", reads |-> {"potential_signal"}, writes |-> {},
        file |-> "none", magic |-> "none", op |-> "none", arg |-> "none", n |-> 0,
        arith |-> FALSE, control |-> FALSE] >>],
    [first |-> 1727, last |-> 1727, syntaxOK |-> TRUE, stmts |-> <<
       [line |-> 1727, kind |-> "Assign", reads |-> {"ab"}, writes |-> {"probe"},
        file |-> "none", magic |-> "none", op |-> "none", arg |-> "none", n |-> 0,
        arith |-> FALSE, control |-> FALSE] >>],
    [first |-> 1745, last |-> 1745, syntaxOK |-> TRUE, stmts |-> <<
       [line |-> 1745, kind |-> "Expr", reads |-> {"potential", "probe"}, writes |-> {},
        file |-> "none", magic |-> "none", op |-> "none", arg |-> "none", n |-> 0,
        arith |-> FALSE, control |-> FALSE] >>],
    [first |-> 1763, last |-> 1763, syntaxOK |-> TRUE, stmts |-> <<
       [line |-> 1763, kind |-> "Assign", reads |-> {"probe"}, writes |-> {"probe_waves"},
        file |-> "none", magic |-> "none", op |-> "none", arg |-> "none", n |-> 0,
        arith |-> FALSE, control |-> FALSE] >>],
    [first |-> 1773, last |-> 1773, syntaxOK |-> TRUE, stmts |-> <<
       [line |-> 1773, kind |-> "Expr", reads |-> {"probe_waves"}, writes |-> {},
        file |-> "none", magic |-> "none", op |-> "none", arg |-> "none", n |-> 0,
        arith |-> FALSE, control |-> FALSE] >>],
    [first |-> 1791, last |-> 1793, syntaxOK |-> TRUE, stmts |-> <<
       [line |-> 1791, kind |-> "Assign", reads |-> {"plt"}, writes |-> {"ax1", "ax2", "fig"},
        file |-> "none", magic |-> "none", op |-> "none", arg |-> "none", n |-> 0,
        arith |-> FALSE, control |-> FALSE],
       [line |-> 1792, kind |-> "Expr", reads |-> {"ax1", "probe_waves"}, writes |-> {},
        file |-> "none", magic |-> "none", op |-> "none", arg |-> "none", n |-> 0,
        arith |-> FALSE, control |-> FALSE],
       [line |-> 1793, kind |-> "Expr", reads |-> {"ax2", "probe_waves"}, writes |-> {},
        file |-> "none", magic |-> "none", op |-> "none", arg |-> "none", n |-> 0,
        arith |-> FALSE, control |-> FALSE] >>],
    [first |-> 1812, last |-> 1814, syntaxOK |-> TRUE, stmts |-> <<
       [line |-> 1812, kind |-> "Assign", reads |-> {}, writes |-> {"position"},
        file |-> "none", magic |-> "none", op |-> "none", arg |-> "none", n |-> 0,
        arith |-> FALSE, control |-> FALSE],
       [line |-> 1814, kind |-> "Assign", reads |-> {"position", "potential", "probe"}, writes |-> {"exit_wave"},
        file |-> "none", magic |-> "none", op |-> "multislice", arg |-> "potential", n |-> 0,
        arith |-> FALSE, control |-> FALSE] >>],
    [first |-> 1832, last |-> 1834, syntaxOK |-> TRUE, stmts |-> <<
       [line |-> 1832, kind |-> "Assign", reads |-> {"plt"}, writes |-> {"ax1", "ax2", "fig"},
        file |-> "none", magic |-> "none", op |-> "none", arg |-> "none", n |-> 0,
        arith |-> FALSE, control |-> FALSE],
       [line |-> 1833, kind |-> "Expr", reads |-> {"ax1", "exit_wave"}, writes |-> {},
        file |-> "none", magic |-> "none", op |-> "none", arg |-> "none", n |-> 0,
        arith |-> FALSE, control |-> FALSE],
       [line |-> 1834, kind |-> "Expr", reads |-> {"ax2", "exit_wave"}, writes |-> {},
        file |-> "none", magic |-> "none", op |-> "none", arg |-> "none", n |-> 0,
        arith |-> FALSE, control |-> FALSE] >>],
    [first |-> 1872, last |-> 1876, syntaxOK |-> TRUE, stmts |-> <<
       [line |-> 1872, kind |-> "Assign", reads |-> {"ab", "potential", "probe"}, writes |-> {"scan"},
        file |-> "none", magic |-> "none", op |-> "none", arg |-> "none", n |-> 0,
        arith |-> TRUE, control |-> FALSE] >>],
    [first |-> 1901, last |-> 1904, syntaxOK |-> TRUE, stmts |-> <<
       [line |-> 1901, kind |-> "Assign", reads |-> {"ab"}, writes |-> {"haadf_detector"},
        file |-> "none", magic |-> "none", op |-> "none", arg |-> "none", n |-> 0,
        arith |-> FALSE, control |-> FALSE],
       [line |-> 1902, kind |-> "Assign", reads |-> {"ab"}, writes |-> {"pixelated_detector"},
        file |-> "none", magic |-> "none", op |-> "none", arg |-> "none", n |-> 0,
        arith |-> FALSE, control |-> FALSE],
       [line |-> 1904, kind |-> "Expr", reads |-> {"haadf_detector", "probe"}, writes |-> {},
        file |-> "none", magic |-> "none", op |-> "none", arg |-> "none", n |-> 0,
        arith |-> FALSE, control |-> FALSE] >>],
    [first |-> 1922, last |-> 1929, syntaxOK |-> TRUE, stmts |-> <<
       [line |-> 1922, kind |-> "Assign", reads |-> {"haadf_detector", "pixelated_detector", "potential", "probe", "scan"}, writes |-> {"scanned_measurements"},
        file |-> "none", magic |-> "none", op |-> "none", arg |-> "none", n |-> 0,
        arith |-> FALSE, control |-> FALSE],
       [line |-> 1929, kind |-> "Assign", reads |-> {"scanned_measurements"}, writes |-> {"haadf", "pixelated"},
        file |-> "none", magic |-> "none", op |-> "none", arg |-> "none", n |-> 0,
        arith |-> FALSE, control |-> FALSE] >>],
    [first |-> 1947, last |-> 1947, syntaxOK |-> TRUE, stmts |-> <<
       [line |-> 1947, kind |-> "Expr", reads |-> {"haadf"}, writes |-> {},
        file |-> "none", magic |-> "none", op |-> "none", arg |-> "none", n |-> 0,
        arith |-> FALSE, control |-> FALSE] >>],
    [first |-> 1965, last |-> 1965, syntaxOK |-> TRUE, stmts |-> <<
       [line |-> 1965, kind |-> "Expr", reads |-> {"pixelated"}, writes |-> {},
        file |-> "none", magic |-> "none", op |-> "none", arg |-> "none", n |-> 0,
        arith |-> FALSE, control |-> FALSE] >>],
    [first |-> 1987, last |-> 1987, syntaxOK |-> TRUE, stmts |-> <<
       [line |-> 1987, kind |-> "Assign", reads |-> {"haadf"}, writes |-> {"interpolated_maadf"},
        file |-> "none", magic |-> "none", op |-> "none", arg |-> "none", n |-> 0,
        arith |-> FALSE, control |-> FALSE] >>],
    [first |-> 2005, last |-> 2008, syntaxOK |-> TRUE, stmts |-> <<
       [line |-> 2005, kind |-> "Import", reads |-> {}, writes |-> {"poisson_noise"},
        file |-> "none", magic |-> "none", op |-> "none", arg |-> "none", n |-> 0,
        arith |-> FALSE, control |-> FALSE],
       [line |-> 2007, kind |-> "Assign", reads |-> {"interpolated_maadf", "poisson_noise"}, writes |-> {"noisy_maadf"},
        file |-> "none", magic |-> "none", op |-> "none", arg |-> "none", n |-> 0,
        arith |-> FALSE, control |-> FALSE],
       [line |-> 2008, kind |-> "Expr", reads |-> {"noisy_maadf"}, writes |-> {},
        file |-> "none", magic |-> "none", op |-> "none", arg |-> "none", n |-> 0,
        arith |-> FALSE, control |-> FALSE] >>],
    [first |-> 2028, last |-> 2028, syntaxOK |-> TRUE, stmts |-> <<
       [line |-> 2028, kind |-> "Assign", reads |-> {"ab"}, writes |-> {"plane_wave"},
        file |-> "none", magic |-> "none", op |-> "none", arg |-> "none", n |-> 0,
        arith |-> FALSE, control |-> FALSE] >>],
    [first |-> 2046, last |-> 2046, syntaxOK |-> TRUE, stmts |-> <<
       [line |-> 2046, kind |-> "Assign", reads |-> {"plane_wave", "potential"}, writes |-> {"exit_wave"},
        file |-> "none", magic |-> "none", op |-> "multislice", arg |-> "potential", n |-> 0,
        arith |-> FALSE, control |-> FALSE] >>],
    [first |-> 2056, last |-> 2056, syntaxOK |-> TRUE, stmts |-> <<
       [line |-> 2056, kind |-> "Expr", reads |-> {"exit_wave"}, writes |-> {},
        file |-> "none", magic |-> "none", op |-> "none", arg |-> "none", n |-> 0,
        arith |-> FALSE, control |-> FALSE] >>],
    [first |-> 2074, last |-> 2082, syntaxOK |-> TRUE, stmts |-> <<
       [line |-> 2074, kind |-> "Import", reads |-> {}, writes |-> {"scherzer_defocus"},
        file |-> "none", magic |-> "none", op |-> "none", arg |-> "none", n |-> 0,
        arith |-> FALSE, control |-> FALSE],
       [line |-> 2076, kind |-> "Assign", reads |-> {}, writes |-> {"Cs"},
        file |-> "none", magic |-> "none", op |-> "none", arg |-> "none", n |-> 0,
        arith |-> TRUE, control |-> FALSE],
       [line |-> 2077, kind |-> "Assign", reads |-> {"Cs", "ab"}, writes |-> {"ctf"},
        file |-> "none", magic |-> "none", op |-> "none", arg |-> "none", n |-> 0,
        arith |-> FALSE, control |-> FALSE],
       [line |-> 2079, kind |-> "Assign", reads |-> {"Cs", "ctf", "scherzer_defocus"}, writes |-> {},
        file |-> "none", magic |-> "none", op |-> "none", arg |-> "none", n |-> 0,
        arith |-> FALSE, control |-> FALSE],
       [line |-> 2080, kind |-> "Assign", reads |-> {"ctf"}, writes |-> {},
        file |-> "none", magic |-> "none", op |-> "none", arg |-> "none", n |-> 0,
        arith |-> FALSE, control |-> FALSE],
       [line |-> 2082, kind |-> "Expr", reads |-> {"ctf"}, writes |-> {},
        file |-> "none", magic |-> "none", op |-> "none", arg |-> "none", n |-> 0,
        arith |-> FALSE, control |-> FALSE] >>],
    [first |-> 2100, last |-> 2100, syntaxOK |-> TRUE, stmts |-> <<
       [line |-> 2100, kind |-> "Assign", reads |-> {"ctf", "exit_wave"}, writes |-> {"image"},
        file |-> "none", magic |-> "none", op |-> "none", arg |-> "none", n |-> 0,
        arith |-> FALSE, control |-> FALSE] >>],
    [first |-> 2118, last |-> 2120, syntaxOK |-> TRUE, stmts |-> <<
       [line |-> 2118, kind |-> "Assign", reads |-> {"image", "poisson_noise"}, writes |-> {"noisy_image"},
        file |-> "none", magic |-> "none", op |-> "none", arg |-> "none", n |-> 0,
        arith |-> FALSE, control |-> FALSE],
       [line |-> 2120, kind |-> "Expr", reads |-> {"noisy_image"}, writes |-> {},
        file |-> "none", magic |-> "none", op |-> "none", arg |-> "none", n |-> 0,
        arith |-> FALSE, control |-> FALSE] >>],
    [first |-> 2143, last |-> 2143, syntaxOK |-> TRUE, stmts |-> <<
       [line |-> 2143, kind |-> "Assign", reads |-> {"ab", "atoms"}, writes |-> {"frozen_phonons"},
        file |-> "none", magic |-> "none", op |-> "FrozenPhonons", arg |-> "none", n |-> 8,
        arith |-> TRUE, control |-> FALSE] >>],
    [first |-> 2161, last |-> 2163, syntaxOK |-> TRUE, stmts |-> <<
       [line |-> 2161, kind |-> "Assign", reads |-> {"frozen_phonons"}, writes |-> {"config"},
        file |-> "none", magic |-> "none", op |-> "none", arg |-> "none", n |-> 0,
        arith |-> FALSE, control |-> FALSE],
       [line |-> 2163, kind |-> "Expr", reads |-> {"ab", "config"}, writes |-> {},
        file |-> "none", magic |-> "none", op |-> "none", arg |-> "none", n |-> 0,
        arith |-> FALSE, control |-> FALSE] >>],
    [first |-> 2181, last |-> 2181, syntaxOK |-> TRUE, stmts |-> <<
       [line |-> 2181, kind |-> "Assign", reads |-> {"ab", "frozen_phonons"}, writes |-> {"frozen_phonon_potential"},
        file |-> "none", magic |-> "none", op |-> "Potential", arg |-> "frozen_phonons", n |-> 0,
        arith |-> FALSE, control |-> FALSE] >>],
    [first |-> 2199, last |-> 2201, syntaxOK |-> TRUE, stmts |-> <<
       [line |-> 2199, kind |-> "Assign", reads |-> {"ab"}, writes |-> {"wave"},
        file |-> "none", magic |-> "none", op |-> "none", arg |-> "none", n |-> 0,
        arith |-> FALSE, control |-> FALSE],
       [line |-> 2201, kind |-> "Assign", reads |-> {"frozen_phonon_potential", "wave"}, writes |-> {"exit_wave"},
        file |-> "none", magic |-> "none", op |-> "multislice", arg |-> "frozen_phonon_potential", n |-> 0,
        arith |-> FALSE, control |-> FALSE] >>],
    [first |-> 2219, last |-> 2219, syntaxOK |-> TRUE, stmts |-> <<
       [line |-> 2219, kind |-> "Expr", reads |-> {"exit_wave"}, writes |-> {},
        file |-> "none", magic |-> "none", op |-> "none", arg |-> "none", n |-> 0,
        arith |-> FALSE, control |-> FALSE] >>],
    [first |-> 2237, last |-> 2237, syntaxOK |-> TRUE, stmts |-> <<
       [line |-> 2237, kind |-> "Assign", reads |-> {"exit_wave"}, writes |-> {"mean_diffraction_pattern"},
        file |-> "none", magic |-> "none", op |-> "diffraction_pattern.mean", arg |-> "none", n |-> 0,
        arith |-> FALSE, control |-> FALSE] >>],
    [first |-> 2255, last |-> 2255, syntaxOK |-> TRUE, stmts |-> <<
       [line |-> 2255, kind |-> "Expr", reads |-> {"mean_diffraction_pattern"}, writes |-> {},
        file |-> "none", magic |-> "none", op |-> "none", arg |-> "none", n |-> 0,
        arith |-> FALSE, control |-> FALSE] >>],
    [first |-> 2284, last |-> 2292, syntaxOK |-> TRUE, stmts |-> <<
       [line |-> 2284, kind |-> "Import", reads |-> {}, writes |-> {"read"},
        file |-> "none", magic |-> "none", op |-> "none", arg |-> "none", n |-> 0,
        arith |-> FALSE, control |-> FALSE],
       [line |-> 2286, kind |-> "Assign", reads |-> {"read"}, writes |-> {"cluster"},
        file |-> "cluster_on_carbon.cfg", magic |-> "none", op |-> "none", arg |-> "none", n |-> 0,
        arith |-> FALSE, control |-> FALSE],
       [line |-> 2288, kind |-> "Expr", reads |-> {"cluster", "np"}, writes |-> {},
        file |-> "none", magic |-> "none", op |-> "none", arg |-> "none", n |-> 0,
        arith |-> FALSE, control |-> FALSE] >>],
    [first |-> 2312, last |-> 2312, syntaxOK |-> TRUE, stmts |-> <<
       [line |-> 2312, kind |-> "Assign", reads |-> {"ab"}, writes |-> {"S"},
        file |-> "none", magic |-> "none", op |-> "none", arg |-> "none", n |-> 0,
        arith |-> FALSE, control |-> FALSE] >>],
    [first |-> 2330, last |-> 2336, syntaxOK |-> TRUE, stmts |-> <<
       [line |-> 2330, kind |-> "Assign", reads |-> {"ab", "cluster"}, writes |-> {"cluster_potential"},
        file |-> "none", magic |-> "none", op |-> "Potential", arg |-> "cluster", n |-> 0,
        arith |-> FALSE, control |-> FALSE],
       [line |-> 2332, kind |-> "Assign", reads |-> {"S", "ab", "cluster_potential"}, writes |-> {"cluster_scan"},
        file |-> "none", magic |-> "none", op |-> "none", arg |-> "none", n |-> 0,
        arith |-> TRUE, control |-> FALSE],
       [line |-> 2336, kind |-> "Assign", reads |-> {"ab"}, writes |-> {"maadf_detector"},
        file |-> "none", magic |-> "none", op |-> "none", arg |-> "none", n |-> 0,
        arith |-> FALSE, control |-> FALSE] >>],
    [first |-> 2354, last |-> 2359, syntaxOK |-> TRUE, stmts |-> <<
       [line |-> 2354, kind |-> "Assign", reads |-> {"S", "cluster_potential", "cluster_scan", "maadf_detector"}, writes |-> {"cluster_maadf"},
        file |-> "none", magic |-> "none", op |-> "none", arg |-> "none", n |-> 0,
        arith |-> FALSE, control |-> FALSE] >>],
    [first |-> 2379, last |-> 2379, syntaxOK |-> TRUE, stmts |-> <<
       [line |-> 2379, kind |-> "Expr", reads |-> {"cluster_maadf"}, writes |-> {},
        file |-> "none", magic |-> "none", op |-> "none", arg |-> "none", n |-> 0,
        arith |-> FALSE, control |-> FALSE] >>]
  >>

----------------------------------------------------------------------------
\* The .ipynb files: each is the sequence of top-level JSON objects found in
\* the file, with the keys of each object and its code cells.
NotebookKeys ==
  {"cells", "metadata", "nbformat", "nbformat_minor"}

NotebookFiles ==
  [ jupyter_matplotlib |-> << [keys |-> NotebookKeys, cells |-> JupyterMatplotlibCells] >>,
    particlespy_unfilled |-> << [keys |-> NotebookKeys, cells |-> ParticlespyCells] >>,
    pyxemTutorial |-> << [keys |-> NotebookKeys, cells |-> PyxemCells],
                         [keys |-> NotebookKeys, cells |-> AbtemCells] >> ]

FileNames ==
  DOMAIN NotebookFiles

\* json.loads on the text of a file: one value, then only whitespace.
LoadError(f) ==
  IF Len(NotebookFiles[f]) = 1 THEN "none" ELSE "Extra data"

\* DocCells with the calibration cell (line 452) of the pyxem notebook placed
\* after the azimuthal integration cells, in exchange for the cell of line 670.
DocCellsCalibrationLate(f, d) ==
  LET cs == NotebookFiles[f][d].cells
      a == CHOOSE c \in 1..Len(cs) : cs[c].first = 452
      b == CHOOSE c \in 1..Len(cs) : cs[c].first = 670
  IN IF f = "pyxemTutorial" /\ d = 1
       THEN [c \in 1..Len(cs) |-> cs[IF c = a THEN b ELSE IF c = b THEN a ELSE c]]
       ELSE cs

\* The code cells of top-level object d of file f, in document order.
DocCells(f, d) ==
  NotebookFiles[f][d].cells

RECURSIVE DataFilesOfStmts(_, _)
DataFilesOfStmts(stmts, k) ==
  IF k > Len(stmts) THEN {}
  ELSE (IF stmts[k].file = "none" THEN {} ELSE {stmts[k].file})
         \cup DataFilesOfStmts(stmts, k + 1)

\* The example data files a document loads.
DataFiles(cells) ==
  UNION {DataFilesOfStmts(cells[c].stmts, 1) : c \in 1..Len(cells)}

----------------------------------------------------------------------------
\* matplotlib backends named by the notebooks.
Backends ==
  {"inline", "qt5", "notebook", "widget"}

InteractiveBackends ==
  {"qt5", "notebook", "widget"}

DefaultBackend ==
  "inline"

\* Any backend may replace any other.
BackendConflictNever(b, g) ==
  FALSE

\* Only one interactive backend can be initialised for a running kernel.
BackendConflict(b, g) ==
  b \in InteractiveBackends /\ g # "none" /\ g # b

----------------------------------------------------------------------------
\* Multislice physics is external; an exit wave is one complex amplitude
\* <<re, im>> per configuration of the potential, drawn from Amps.
MaxAmp == 1

Amps ==
  {<<0, 0>>, <<MaxAmp, 0>>, <<0 - MaxAmp, 0>>}

Intensity(w) ==
  w[1] * w[1] + w[2] * w[2]

RECURSIVE SumIntensity(_, _)
SumIntensity(ws, k) ==
  IF k > Len(ws) THEN 0 ELSE Intensity(ws[k]) + SumIntensity(ws, k + 1)

RECURSIVE SumWave(_, _)
SumWave(ws, k) ==
  IF k > Len(ws) THEN <<0, 0>>
  ELSE LET r == SumWave(ws, k + 1) IN <<ws[k][1] + r[1], ws[k][2] + r[2]>>

\* The waves averaged first and the intensity taken of the mean wave.
IntensityOfMean(ws) ==
  [num |-> Intensity(SumWave(ws, 1)), den |-> Len(ws) * Len(ws)]

\* Measurement.mean(0) after Waves.diffraction_pattern(): the mean over the
\* first dimension, kept as the fraction num / den.
MeanOfIntensities(ws) ==
  [num |-> SumIntensity(ws, 1), den |-> Len(ws)]

NoMeasurement ==
  [num |-> 0, den |-> 0]

\* Names that carry a number of frozen-phonon configurations.
ConfigNames ==
  {"frozen_phonons", "potential", "frozen_phonon_potential", "cluster_potential"}

ConfigsOf(cfg, name) ==
  IF name \in ConfigNames THEN cfg[name] ELSE 1

----------------------------------------------------------------------------
\* A loader call wrapped in try / except.
StmtKindGuarded(s) ==
  IF s.file # "none" THEN "Try" ELSE s.kind

\* The kind of a top-level statement.
StmtKind(s) ==
  s.kind

\* A loader that returns an empty dataset when its file is missing.
RaisesSubstituteDataset(s, env, present) ==
  IF ~(s.reads \subseteq env.ns) THEN "NameError"
  ELSE IF StmtKind(s) = "Magic" /\ BackendConflict(s.magic, env.gui) THEN "BackendError"
  ELSE "none"

\* Execution of one statement in kernel state env; w is the exit wave a
\* multislice call of the statement would return.
Raises(s, env, present) ==
  IF ~(s.reads \subseteq env.ns) THEN "NameError"
  ELSE IF s.file # "none" /\ s.file \notin present /\ StmtKind(s) # "Try" THEN "FileNotFoundError"
  ELSE IF StmtKind(s) = "Magic" /\ BackendConflict(s.magic, env.gui) THEN "BackendError"
  ELSE "none"

Effect(s, env, w) ==
  [env EXCEPT
     !.ns = @ \cup s.writes,
     !.backend = IF StmtKind(s) = "Magic" THEN s.magic ELSE @,
     !.gui = IF StmtKind(s) = "Magic" /\ s.magic \in InteractiveBackends THEN s.magic ELSE @,
     !.configs = IF s.op = "FrozenPhonons"
                   THEN [n \in ConfigNames |-> IF n \in s.writes THEN s.n ELSE @[n]]
                 ELSE IF s.op = "Potential"
                   THEN [n \in ConfigNames |-> IF n \in s.writes THEN ConfigsOf(@, s.arg) ELSE @[n]]
                 ELSE @,
     !.exit_wave = IF s.op = "multislice" THEN w ELSE @,
     !.mean_diffraction_pattern =
         IF s.op = "diffraction_pattern.mean" THEN MeanOfIntensities(env.exit_wave) ELSE @,
     !.done = @ + 1]

\* Statements k.. of a cell where a statement that raises is skipped and the
\* rest of the cell still runs.
RECURSIVE ExecContinue(_, _, _, _, _)
ExecContinue(stmts, k, env, present, w) ==
  IF k > Len(stmts) THEN env
  ELSE LET e == Raises(stmts[k], env, present) IN
       IF e # "none"
         THEN ExecContinue(stmts, k + 1, [env EXCEPT !.err = e], present, w)
         ELSE ExecContinue(stmts, k + 1, Effect(stmts[k], env, w), present, w)

\* Statements k.. of a cell, one after the other, up to the first that raises.
RECURSIVE Exec(_, _, _, _, _)
Exec(stmts, k, env, present, w) ==
  IF k > Len(stmts) THEN env
  ELSE LET e == Raises(stmts[k], env, present) IN
       IF e # "none" THEN [env EXCEPT !.err = e]
       ELSE Exec(stmts, k + 1, Effect(stmts[k], env, w), present, w)

\* A cell is compiled whole before any of it runs.
ExecCell(cell, env, present, w) ==
  IF ~cell.syntaxOK THEN [env EXCEPT !.err = "SyntaxError"]
  ELSE Exec(cell.stmts, 1, env, present, w)

RECURSIVE MultisliceArg(_, _)
MultisliceArg(stmts, k) ==
  IF k > Len(stmts) THEN "none"
  ELSE IF stmts[k].op = "multislice" THEN stmts[k].arg
  ELSE MultisliceArg(stmts, k + 1)

\* The exit waves multislice can return for the cell: one amplitude per
\* configuration of the potential it is given.
ExitWaves(cell, cfg) ==
  IF MultisliceArg(cell.stmts, 1) = "none" THEN {<< >>}
  ELSE [1..ConfigsOf(cfg, MultisliceArg(cell.stmts, 1)) -> Amps]

----------------------------------------------------------------------------
\* The inverse-pole-figure colouring of the pyxem notebook.  An array of
\* vectors has shape (rows, columns, 3): a sequence of rows, each a sequence
\* of 3-component vectors.  Components are integers; a quotient is kept as
\* the fraction <<numerator, denominator>>, <<0, 0>> standing for 0 / 0.
MaxCoord == 2

Coords ==
  (0 - MaxCoord)..MaxCoord

Vectors3 ==
  {<<a, b, c>> : a \in Coords, b \in Coords, c \in Coords}

\* The second vector of the two-vector input arrays.
Companions ==
  {<<0, 0, 1>>, <<1, 0, 1>>, <<1, 1, 1>>, <<1, 0 - 1, 2>>}

\* Input arrays of shape (1, 1, 3), (1, 2, 3) and (2, 1, 3).
Arrays ==
  {<< <<u>> >> : u \in Vectors3}
    \cup {<< <<u, v>> >> : u \in Vectors3, v \in Companions}
    \cup {<< <<u>>, <<v>> >> : u \in Vectors3, v \in Companions}

Abs(x) ==
  IF x < 0 THEN 0 - x ELSE x

Min2(x, y) ==
  IF x <= y THEN x ELSE y

Max2(x, y) ==
  IF x >= y THEN x ELSE y

\* np.abs along the last axis.
np_abs(v) ==
  <<Abs(v[1]), Abs(v[2]), Abs(v[3])>>

\* np.sort(axis=-1): the three components in ascending order.
np_sort(v) ==
  LET lo == Min2(v[1], Min2(v[2], v[3]))
      hi == Max2(v[1], Max2(v[2], v[3]))
  IN <<lo, v[1] + v[2] + v[3] - lo - hi, hi>>

\* to_fundamental without the exchange of columns 0 and 1.
to_fundamental_sorted(data_sol) ==
  [r \in DOMAIN data_sol |-> [c \in DOMAIN data_sol[r] |->
     np_sort(np_abs(data_sol[r][c]))]]

\* to_fundamental without np.abs.
to_fundamental_signed(data_sol) ==
  LET sorted == [r \in DOMAIN data_sol |-> [c \in DOMAIN data_sol[r] |->
                   np_sort(data_sol[r][c])]]
      column == [r \in DOMAIN sorted |-> [c \in DOMAIN sorted[r] |-> sorted[r][c][1]]]
  IN [r \in DOMAIN sorted |-> [c \in DOMAIN sorted[r] |->
        <<sorted[r][c][2], column[r][c], sorted[r][c][3]>>]]

\* to_fundamental: absolute values, sorted along the last axis, then
\* column 0 takes column 1 and column 1 takes the saved copy of column 0.
to_fundamental(data_sol) ==
  LET absolute == [r \in DOMAIN data_sol |-> [c \in DOMAIN data_sol[r] |->
                     np_abs(data_sol[r][c])]]
      sorted == [r \in DOMAIN absolute |-> [c \in DOMAIN absolute[r] |->
                   np_sort(absolute[r][c])]]
      column == [r \in DOMAIN sorted |-> [c \in DOMAIN sorted[r] |-> sorted[r][c][1]]]
  IN [r \in DOMAIN sorted |-> [c \in DOMAIN sorted[r] |->
        <<sorted[r][c][2], column[r][c], sorted[r][c][3]>>]]

\* The corner vectors written as the rows of the matrix.
color_corners_rows ==
  << <<0, 0, 1>>,
     <<1, 0, 1>>,
     <<1, 1, 1>> >>

\* color_corners: its columns are the vectors mapped onto R, G and B.
color_corners ==
  << <<0, 1, 1>>,
     <<0, 0, 1>>,
     <<1, 1, 1>> >>

Det3(m) ==
  m[1][1] * (m[2][2] * m[3][3] - m[2][3] * m[3][2])
    - m[1][2] * (m[2][1] * m[3][3] - m[2][3] * m[3][1])
    + m[1][3] * (m[2][1] * m[3][2] - m[2][2] * m[3][1])

\* The cofactor of entry (i, j) of a 3 x 3 matrix.
Cofactor(m, i, j) ==
  LET i1 == (i % 3) + 1
      i2 == ((i + 1) % 3) + 1
      j1 == (j % 3) + 1
      j2 == ((j + 1) % 3) + 1
  IN m[i1][j1] * m[i2][j2] - m[i1][j2] * m[i2][j1]

\* np.linalg.inv of a 3 x 3 integer matrix of determinant 1 or -1.
linalg_inv(m) ==
  [i \in 1..3 |-> [j \in 1..3 |-> (Cofactor(m, j, i) * Det3(m)) \div (Det3(m) * Det3(m))]]

color_mapper ==
  linalg_inv(color_corners)

\* data_sol.reshape(np.product(data_sol.shape[:-1]), 3): the vectors in
\* row-major order.
Flatten(a) ==
  LET cols == Len(a[1]) IN
  [n \in 1..(Len(a) * cols) |-> a[((n - 1) \div cols) + 1][((n - 1) % cols) + 1]]

\* .T of an N x 3 array: 3 rows of N entries.
TransposeN3(f) ==
  [k \in 1..3 |-> [n \in 1..Len(f) |-> f[n][k]]]

\* np.dot of a 3 x 3 matrix and a 3 x N array.
Dot(m, x) ==
  [k \in 1..3 |-> [n \in 1..Len(x[1]) |->
     m[k][1] * x[1][n] + m[k][2] * x[2][n] + m[k][3] * x[3][n]]]

\* np.abs(rgb / rgb.max(axis=0)).T: each column divided by its largest
\* entry, then N rows of 3 fractions.
Normalise(rgb) ==
  [n \in 1..Len(rgb[1]) |->
     LET top == Max2(rgb[1][n], Max2(rgb[2][n], rgb[3][n])) IN
     [k \in 1..3 |-> <<Abs(rgb[k][n]), Abs(top)>>]]

\* reshape(data_sol.shape): back to the rows and columns of a.
ReshapeLike(f, a) ==
  [r \in DOMAIN a |-> [c \in DOMAIN a[r] |-> f[(r - 1) * Len(a[1]) + c]]]

get_ipf_color(vectors_data) ==
  LET data_sol == to_fundamental(vectors_data)
      flattened == TransposeN3(Flatten(data_sol))
      rgb_mapped == Dot(color_mapper, flattened)
  IN ReshapeLike(Normalise(rgb_mapped), data_sol)

----------------------------------------------------------------------------
VARIABLES
  file,      \* the opened .ipynb file, "none" before one is opened
  doc,       \* the top-level object of the file whose cells are run
  loadError, \* what the JSON loader reports for the file
  present,   \* the example data files present in the working directory
  kernel,    \* number of kernel restarts so far
  ns,        \* names bound in the kernel's namespace
  backend,   \* active matplotlib backend
  gui,       \* interactive backend initialised in this kernel, or "none"
  configs,   \* number of configurations of each frozen-phonon object
  exit_wave, \* value of exit_wave: one amplitude per configuration
  mean_diffraction_pattern, \* value of mean_diffraction_pattern
  pc,        \* next cell in top-to-bottom order
  outcome,   \* output of each cell: "none", "ok" or the error reported
  ran,       \* the last cell run: its index, statements completed, error
  execution_count, \* the kernel's execution counter
  typed,     \* the backend of the %matplotlib line typed in the last, empty cell
  vectors,   \* the array a function of the IPF cell is called on
  fundamental, \* what to_fundamental returned; the array before any call
  rgb_mapped,  \* what get_ipf_color returned
  called     \* the call made last: "none" before any

vars ==
  <<file, doc, loadError, present, kernel, ns, backend, gui, configs,
    exit_wave, mean_diffraction_pattern, pc, outcome, ran, execution_count, typed,
    vectors, fundamental, rgb_mapped, called>>

kernelVars ==
  <<file, doc, loadError, present, kernel, ns, backend, gui, configs,
    exit_wave, mean_diffraction_pattern, pc, outcome, ran, execution_count, typed>>

ipfVars ==
  <<vectors, fundamental, rgb_mapped, called>>

Cells ==
  IF file = "none" THEN << >> ELSE DocCells(file, doc)

NoRun ==
  [cell |-> 0, done |-> 0, err |-> "none"]

FreshKernel ==
  /\ ns = {}
  /\ backend = DefaultBackend
  /\ gui = "none"
  /\ configs = [n \in ConfigNames |-> 0]
  /\ exit_wave = << >>
  /\ mean_diffraction_pattern = NoMeasurement

InitKernel ==
  /\ file = "none"
  /\ doc = 0
  /\ loadError = "none"
  /\ present = {}
  /\ kernel = 0
  /\ FreshKernel
  /\ pc = 1
  /\ outcome = << >>
  /\ ran = NoRun
  /\ execution_count = 0
  /\ typed = "none"

Init ==
  /\ InitKernel
  /\ vectors = << >>
  /\ fundamental = << >>
  /\ rgb_mapped = << >>
  /\ called = "none"

\* Open top-level object d of file f in a fresh kernel, with some of the
\* document's data files in the working directory.
Open(f, d, p) ==
  /\ file = "none"
  /\ file' = f
  /\ doc' = d
  /\ loadError' = LoadError(f)
  /\ present' = p
  /\ outcome' = [c \in 1..Len(DocCells(f, d)) |-> "none"]
  /\ UNCHANGED <<kernel, ns, backend, gui, configs, exit_wave,
                 mean_diffraction_pattern, pc, ran, execution_count, typed>>
  /\ UNCHANGED ipfVars

Env ==
  [ns |-> ns, backend |-> backend, gui |-> gui, configs |-> configs,
   exit_wave |-> exit_wave, mean_diffraction_pattern |-> mean_diffraction_pattern,
   done |-> 0, err |-> "none"]

\* The kernel executes the source of cell c and the cell shows either its
\* result or the error raised.
Execute(c, cell, w) ==
  /\ LET r == ExecCell(cell, Env, present, w) IN
       /\ ns' = r.ns
       /\ backend' = r.backend
       /\ gui' = r.gui
       /\ configs' = r.configs
       /\ exit_wave' = r.exit_wave
       /\ mean_diffraction_pattern' = r.mean_diffraction_pattern
       /\ outcome' = [outcome EXCEPT ![c] = IF r.err = "none" THEN "ok" ELSE r.err]
       /\ ran' = [cell |-> c, done |-> r.done, err |-> r.err]
  /\ execution_count' = execution_count + 1
  /\ UNCHANGED <<file, doc, loadError, present, kernel>>
  /\ UNCHANGED ipfVars

\* The cell `%matplotlib name_of_backend`.
MagicCell(b) ==
  [first |-> 244, last |-> 244, syntaxOK |-> TRUE, stmts |-> <<
     [line |-> 244, kind |-> "Magic", reads |-> {}, writes |-> {},
      file |-> "none", magic |-> b, op |-> "none", arg |-> "none", n |-> 0,
      arith |-> FALSE, control |-> FALSE] >>]

\* The source of cell c: as in the file, but for the empty cell that ends
\* the document once a %matplotlib line has been typed into it.
Source(c) ==
  IF c = Len(Cells) /\ typed # "none" THEN MagicCell(typed) ELSE Cells[c]

\* Run cell c of the document (Shift + Enter).
RunCell(c, w) ==
  /\ file # "none"
  /\ c \in 1..Len(Cells)
  /\ Execute(c, Source(c), w)
  /\ UNCHANGED typed

\* Top-to-bottom execution: the next cell of the document.
RunNext ==
  /\ file # "none"
  /\ pc <= Len(Cells)
  /\ \E w \in ExitWaves(Cells[pc], configs) : RunCell(pc, w)
  /\ pc' = pc + 1

OpenAny ==
  \E f \in FileNames : \E d \in 1..Len(NotebookFiles[f]) :
    \E p \in SUBSET DataFiles(DocCells(f, d)) : Open(f, d, p)

Next ==
  \/ OpenAny
  \/ RunNext

\* Every notebook document, run top to bottom in a fresh kernel.
Spec ==
  Init /\ [][Next]_vars

----------------------------------------------------------------------------
\* Interactive use of the Getting started notebook: cells run in any order,
\* the kernel restarted from the menu, a %matplotlib line typed in the empty
\* cell that ends the document.
MaxRestarts == 1

MaxExecutions == 2

OpenJupyter ==
  Open("jupyter_matplotlib", 1, {})

RunAny ==
  /\ execution_count < MaxExecutions
  /\ \E c \in 1..Len(Cells) : \E w \in ExitWaves(Cells[c], configs) : RunCell(c, w)
  /\ UNCHANGED pc

\* Type `%matplotlib b` into the empty last cell and run it.
RunMagic(b) ==
  /\ file # "none"
  /\ execution_count < MaxExecutions
  /\ Len(Cells[Len(Cells)].stmts) = 0
  /\ typed' = b
  /\ Execute(Len(Cells), MagicCell(b), << >>)
  /\ UNCHANGED pc

\* A restart that keeps the interactive backend of the previous kernel.
RestartKeepBackend ==
  /\ file # "none"
  /\ kernel < MaxRestarts
  /\ kernel' = kernel + 1
  /\ ns' = {}
  /\ configs' = [n \in ConfigNames |-> 0]
  /\ exit_wave' = << >>
  /\ mean_diffraction_pattern' = NoMeasurement
  /\ execution_count' = 0
  /\ ran' = NoRun
  /\ UNCHANGED <<file, doc, loadError, present, pc, outcome, typed, backend, gui>>
  /\ UNCHANGED ipfVars

\* A restart that keeps the names bound in the previous kernel.
RestartKeepNamespace ==
  /\ file # "none"
  /\ kernel < MaxRestarts
  /\ kernel' = kernel + 1
  /\ backend' = DefaultBackend
  /\ gui' = "none"
  /\ execution_count' = 0
  /\ ran' = NoRun
  /\ UNCHANGED <<file, doc, loadError, present, pc, outcome, typed, ns, configs,
                 exit_wave, mean_diffraction_pattern>>
  /\ UNCHANGED ipfVars

\* Restarting the kernel starts from scratch; the document keeps its outputs.
Restart ==
  /\ file # "none"
  /\ kernel < MaxRestarts
  /\ kernel' = kernel + 1
  /\ ns' = {}
  /\ backend' = DefaultBackend
  /\ gui' = "none"
  /\ configs' = [n \in ConfigNames |-> 0]
  /\ exit_wave' = << >>
  /\ mean_diffraction_pattern' = NoMeasurement
  /\ execution_count' = 0
  /\ ran' = NoRun
  /\ UNCHANGED <<file, doc, loadError, present, pc, outcome, typed>>
  /\ UNCHANGED ipfVars

NextInteractive ==
  \/ OpenJupyter
  \/ RunAny
  \/ \E b \in Backends : RunMagic(b)
  \/ Restart

SpecInteractive ==
  Init /\ [][NextInteractive]_vars

----------------------------------------------------------------------------
\* Calls of the two functions the IPF cell defines, on every input array.
InitIPF ==
  /\ InitKernel
  /\ vectors \in Arrays
  /\ fundamental = vectors
  /\ rgb_mapped = << >>
  /\ called = "none"

\* to_fundamental(vectors), and then to_fundamental of what it returned.
CallToFundamental ==
  /\ called \in {"none", "to_fundamental"}
  /\ fundamental' = to_fundamental(fundamental)
  /\ called' = IF called = "none" THEN "to_fundamental" ELSE "to_fundamental twice"
  /\ UNCHANGED <<vectors, rgb_mapped>>
  /\ UNCHANGED kernelVars

\* get_ipf_color(vectors); fundamental keeps the value of its local data_sol.
CallGetIpfColor ==
  /\ called = "none"
  /\ fundamental' = to_fundamental(vectors)
  /\ rgb_mapped' = get_ipf_color(vectors)
  /\ called' = "get_ipf_color"
  /\ UNCHANGED vectors
  /\ UNCHANGED kernelVars

NextIPF ==
  \/ CallToFundamental
  \/ CallGetIpfColor

SpecIPF ==
  InitIPF /\ [][NextIPF]_vars

----------------------------------------------------------------------------
\* The cell of the opened document whose source spans file line l.
CellAt(l) ==
  CHOOSE c \in 1..Len(Cells) : Cells[c].first <= l /\ l <= Cells[c].last

IsDoc(f, d) ==
  file = f /\ doc = d

AllDataPresent ==
  file # "none" /\ present = DataFiles(Cells)

PrefixWrites(stmts, k) ==
  UNION {stmts[i].writes : i \in 1..k}

\* C1: run top to bottom in a fresh kernel with its data files present, no
\* cell of a notebook fails on an unbound name: every name a cell reads was
\* bound by an earlier cell or statement (dpc, VDFs and tm included).
C1_NoUnboundName ==
  AllDataPresent => \A c \in 1..Len(Cells) : outcome[c] # "NameError"

\* C2: no cell catches exceptions; when a statement of a cell raises, the
\* cell stops there: the statements before it have taken effect and keep
\* their bindings, the statements after it have not run, and the error is
\* the cell's output.
C2_RaiseStopsCell ==
  [][(pc' = pc + 1 /\ ran'.err \notin {"none", "SyntaxError"}) =>
       LET stmts == Cells[pc].stmts
           k == ran'.done
       IN /\ \A i \in 1..Len(stmts) : StmtKind(stmts[i]) # "Try"
          /\ k < Len(stmts)
          /\ \/ ~(stmts[k + 1].reads \subseteq ns')
             \/ stmts[k + 1].file \notin present \cup {"none"}
             \/ stmts[k + 1].magic \notin {"none", gui'}
          /\ ns' = ns \cup PrefixWrites(stmts, k)
          /\ (\A i \in 1..k : stmts[i].magic = "none") => backend' = backend
          /\ outcome'[pc] = ran'.err]_vars

\* C2 witness: the ParticleSpy load cell with the HAADF file missing: the
\* imports and filename are bound, haadf is not, the magic after it never ran.
C2_Witness ==
  /\ IsDoc("particlespy_unfilled", 1)
  /\ ran = [cell |-> 1, done |-> 5, err |-> "FileNotFoundError"]
  /\ outcome[1] = "FileNotFoundError"
  /\ {"hs", "ps", "tp", "plt", "filename"} \subseteq ns
  /\ "haadf" \notin ns
  /\ backend = DefaultBackend

\* The backend named by the %matplotlib line of the cell just run, or "none".
MagicRun ==
  IF ran'.cell = 0 THEN "none"
  ELSE IF ran'.cell = Len(Cells) /\ typed' # "none" THEN typed'
  ELSE IF Len(Cells[ran'.cell].stmts) = 0 THEN "none"
  ELSE Cells[ran'.cell].stmts[1].magic

Executed ==
  execution_count' = execution_count + 1

\* C3: in one running kernel at most one interactive backend is ever
\* initialised: after %matplotlib qt5, %matplotlib notebook (or any other
\* interactive backend) is rejected with an error and the backends stay as
\* they were, while a switch to a non-interactive backend is accepted.
C3_OneInteractiveBackend ==
  [][/\ (kernel' = kernel /\ gui # "none") => gui' = gui
     /\ (Executed /\ gui # "none" /\ MagicRun \in InteractiveBackends \ {gui}) =>
          /\ ran'.err = "BackendError"
          /\ outcome'[ran'.cell] = "BackendError"
          /\ backend' = backend
          /\ gui' = gui
     /\ (Executed /\ gui = "qt5" /\ backend = "qt5" /\ ran'.cell = CellAt(207)) =>
          /\ ran'.err = "BackendError"
          /\ backend' = "qt5"
     /\ (Executed /\ MagicRun \in Backends \ InteractiveBackends) =>
          /\ ran'.err = "none"
          /\ backend' = MagicRun
          /\ gui' = gui]_vars

\* C3 witness: %matplotlib notebook rejected in a kernel running qt5.
C3_Witness ==
  /\ file # "none"
  /\ kernel = 0
  /\ gui = "qt5"
  /\ backend = "qt5"
  /\ ran = [cell |-> CellAt(207), done |-> 0, err |-> "BackendError"]

\* C4: an initialised interactive backend is given up only by a restart of
\* the kernel, and after a restart the first %matplotlib line naming an
\* interactive backend succeeds, whatever the previous kernel used.
C4_RestartSwitchesBackend ==
  [][/\ (gui # "none" /\ gui' # gui) => (kernel' = kernel + 1 /\ gui' = "none")
     /\ kernel' = kernel + 1 => (gui' = "none" /\ backend' = DefaultBackend)
     /\ (Executed /\ gui = "none" /\ MagicRun \in InteractiveBackends) =>
          /\ ran'.err = "none"
          /\ gui' = MagicRun
          /\ backend' = MagicRun]_vars

\* C4 witness: notebook active in a restarted kernel; the output of the qt5
\* cell is left from the kernel before the restart, which ran qt5.
C4_Witness ==
  /\ file # "none"
  /\ kernel >= 1
  /\ outcome[CellAt(131)] = "ok"
  /\ gui = "notebook"
  /\ backend = "notebook"
  /\ ran = [cell |-> CellAt(207), done |-> 1, err |-> "none"]

\* C5: a restart leaves no name bound; plt is bound again only by running
\* the import cell in the new kernel, and a plt.plot cell fails with an
\* unbound name before that and succeeds after it.
C5_RestartClearsNamespace ==
  [][/\ kernel' = kernel + 1 => ns' = {}
     /\ ("plt" \notin ns /\ "plt" \in ns') =>
          (Executed /\ ran'.cell = CellAt(96) /\ ran'.err = "none")
     /\ (Executed /\ ran'.cell = CellAt(96)) => "plt" \in ns'
     /\ (Executed /\ ran'.cell \in {CellAt(110), CellAt(143), CellAt(227)}) =>
          /\ "plt" \in ns => ran'.err = "none"
          /\ "plt" \notin ns => ran'.err = "NameError"
          /\ outcome'[ran'.cell] = (IF "plt" \in ns THEN "ok" ELSE "NameError")]_vars

\* C5 witness: in a restarted kernel with qt5 initialised again, the plot
\* cell fails although the import cell ran in the previous kernel.
C5_Witness ==
  /\ file # "none"
  /\ kernel >= 1
  /\ gui = "qt5"
  /\ outcome[CellAt(96)] = "ok"
  /\ ran = [cell |-> CellAt(227), done |-> 0, err |-> "NameError"]

\* C6: the ParticleSpy notebook, run top to bottom with its data present,
\* completes every cell from the load cell to the area-histogram cell.
C6_ParticleAnalysisCompletes ==
  (IsDoc("particlespy_unfilled", 1) /\ AllDataPresent /\ pc > CellAt(217)) =>
     \A c \in CellAt(49)..CellAt(217) : outcome[c] = "ok"

\* C7: the frozen-phonon diffraction pattern is the mean over the eight
\* configurations of the intensities of the exit waves: intensity first, then
\* the mean along the ensemble dimension; the waves are never averaged.
C7_MeanOfIntensities ==
  mean_diffraction_pattern # NoMeasurement =>
     LET I(i) == exit_wave[i][1] * exit_wave[i][1] + exit_wave[i][2] * exit_wave[i][2]
     IN /\ configs["frozen_phonons"] = 8
        /\ configs["frozen_phonon_potential"] = 8
        /\ Len(exit_wave) = 8
        /\ mean_diffraction_pattern.den > 0
        /\ 8 * mean_diffraction_pattern.num =
             mean_diffraction_pattern.den * (I(1) + I(2) + I(3) + I(4) + I(5) + I(6) + I(7) + I(8))

\* C7 witness: a mean pattern of an ensemble whose waves cancel in part, so
\* that the intensity of the averaged wave would differ from it.
C7_Witness ==
  /\ IsDoc("pyxemTutorial", 2)
  /\ outcome[CellAt(2237)] = "ok"
  /\ mean_diffraction_pattern.num > 0
  /\ 8 * Intensity(SumWave(exit_wave, 1)) # 64 * mean_diffraction_pattern.num

\* C8: in the pyxem notebook run top to bottom, whenever an azimuthal
\* integration cell (set the integrator, get the 1D integration, compute it)
\* has been executed, the cells setting the beam energy and the diffraction
\* calibration have been executed before it, and have succeeded when the
\* data is present.
C8_CalibratedBeforeIntegration ==
  IsDoc("pyxemTutorial", 1) =>
     \A l \in {648, 659, 670} : outcome[CellAt(l)] # "none" =>
        \A m \in {327, 452, 637} :
           /\ outcome[CellAt(m)] # "none"
           /\ CellAt(m) < CellAt(l)
           /\ AllDataPresent => outcome[CellAt(m)] = "ok"

\* C8 witness: the integration has been computed after both settings succeeded.
C8_Witness ==
  /\ IsDoc("pyxemTutorial", 1)
  /\ outcome[CellAt(670)] = "ok"
  /\ outcome[CellAt(327)] = "ok"
  /\ outcome[CellAt(452)] = "ok"
  /\ pc = CellAt(670) + 1

RanStmts ==
  IF ran.cell = 0 THEN {}
  ELSE {Cells[ran.cell].stmts[i] : i \in 1..Len(Cells[ran.cell].stmts)}

\* C9: every code cell is a straight-line sequence of imports, assignments
\* and calls: no cell defines a function, loops or branches, and no
\* arithmetic is written in the notebooks.
C9_StraightLineOnly ==
  \A s \in RanStmts :
     /\ StmtKind(s) \in {"Import", "Assign", "Expr", "Magic"}
     /\ ~s.control
     /\ ~s.arith

\* C9 amended: no cell branches or handles exceptions; function definitions
\* occur only in the IPF cell of the pyxem notebook, for loops only in that
\* cell and in the last plotting cell of the ParticleSpy notebook, and
\* arithmetic only in the listed statements.
C9_StraightLineExceptListed ==
  \A s \in RanStmts :
     /\ StmtKind(s) \in {"Import", "Assign", "Expr", "Magic", "FunctionDef", "For"}
     /\ ~s.control
     /\ StmtKind(s) = "FunctionDef" =>
          IsDoc("pyxemTutorial", 1) /\ s.line \in {1334, 1343}
     /\ StmtKind(s) = "For" =>
          \/ IsDoc("pyxemTutorial", 1) /\ s.line = 1365
          \/ IsDoc("particlespy_unfilled", 1) /\ s.line = 578
     /\ s.arith =>
          \/ IsDoc("pyxemTutorial", 1) /\ s.line \in {1220, 1222, 1343, 1365}
          \/ IsDoc("pyxemTutorial", 2) /\ s.line \in {1872, 2076, 2143, 2332}

\* C9 witness: the IPF cell has run: both functions defined, the loop executed.
C9_Witness ==
  /\ IsDoc("pyxemTutorial", 1)
  /\ ran.cell = CellAt(1334)
  /\ ran.err = "none"
  /\ {"to_fundamental", "get_ipf_color"} \subseteq ns

\* C10: every .ipynb file is exactly one notebook document: one top-level
\* JSON object with cells, metadata and nbformat, and nothing after it.
C10_OneNotebookPerFile ==
  file # "none" =>
     /\ Len(NotebookFiles[file]) = 1
     /\ loadError = "none"
     /\ {"cells", "metadata", "nbformat"} \subseteq NotebookFiles[file][1].keys

\* C11: when a data-loading call raises because its file is missing, the
\* name it would have bound stays unbound, and every later cell that reads
\* that name fails with an error: none runs on a substitute dataset.
C11_MissingDataStaysUnbound ==
  file # "none" =>
     \A c \in 1..Len(Cells) : \A i \in 1..Len(Cells[c].stmts) :
        LET s == Cells[c].stmts[i] IN
        (c < pc /\ s.file \notin present \cup {"none"}) =>
           /\ outcome[c] \notin {"ok", "none"}
           /\ \A v \in s.writes :
                /\ v \notin ns
                /\ \A d \in (c + 1)..(pc - 1) :
                     (\E j \in 1..Len(Cells[d].stmts) : v \in Cells[d].stmts[j].reads) =>
                        outcome[d] \notin {"ok", "none"}

\* C11 witness: the HAADF image is missing and the EDS image is present;
\* the acquisition cell that reads both has failed on the unbound haadf.
C11_Witness ==
  /\ IsDoc("particlespy_unfilled", 1)
  /\ "SiO2 HAADF Image.hspy" \notin present
  /\ "SiO2 EDS Spectrum Image.hspy" \in present
  /\ outcome[CellAt(55)] = "FileNotFoundError"
  /\ outcome[CellAt(293)] = "NameError"
  /\ "eds" \in ns
  /\ "haadf" \notin ns

Elements(a) ==
  {<<r, c>> : r \in DOMAIN a, c \in 1..Len(a[1])}

\* C12: to_fundamental maps every vector (a, b, c) of its input to
\* (mid, min, max) of (|a|, |b|, |c|): no component is negative and
\* output[1] <= output[0] <= output[2], each vector on its own.
C12_MidMinMax ==
  called = "to_fundamental" =>
     /\ DOMAIN fundamental = DOMAIN vectors
     /\ \A r \in DOMAIN vectors : DOMAIN fundamental[r] = DOMAIN vectors[r]
     /\ \A e \in Elements(vectors) :
          LET v == vectors[e[1]][e[2]]
              o == fundamental[e[1]][e[2]]
              m == {Abs(v[1]), Abs(v[2]), Abs(v[3])}
          IN /\ o[2] >= 0
             /\ o[2] <= o[1]
             /\ o[1] <= o[3]
             /\ o[2] \in m /\ \A x \in m : o[2] <= x
             /\ o[3] \in m /\ \A x \in m : x <= o[3]
             /\ o[1] \in m
             /\ o[1] + o[2] + o[3] = Abs(v[1]) + Abs(v[2]) + Abs(v[3])

\* C12 witness: two vectors with negative components and three distinct
\* magnitudes, each mapped by itself.
C12_Witness ==
  /\ called = "to_fundamental"
  /\ vectors = << << <<0 - 2, 1, 0>>, <<1, 0 - 1, 2>> >> >>
  /\ fundamental = << << <<1, 0, 2>>, <<1, 1, 2>> >> >>

Signs ==
  {<<a, b, c>> : a \in {0 - 1, 1}, b \in {0 - 1, 1}, c \in {0 - 1, 1}}

Permutations3 ==
  {p \in [1..3 -> 1..3] : {p[1], p[2], p[3]} = {1, 2, 3}}

\* C13: to_fundamental returns the same for vectors that differ by sign
\* changes and a permutation of their components, and applying it to its
\* own result changes nothing.
C13_SymmetricIdempotent ==
  /\ [](called = "to_fundamental" =>
          \A e \in Elements(vectors) : \A g \in Signs : \A p \in Permutations3 :
             LET v == vectors[e[1]][e[2]]
                 u == <<g[1] * v[p[1]], g[2] * v[p[2]], g[3] * v[p[3]]>>
             IN to_fundamental(<< <<u>> >>)[1][1] = fundamental[e[1]][e[2]])
  /\ [][(called = "to_fundamental" /\ called' = "to_fundamental twice") =>
          fundamental' = fundamental]_vars

\* C13 witness: a second call on the result of (2, -1, 0) left it as it was.
C13_Witness ==
  /\ called = "to_fundamental twice"
  /\ vectors[1][1] = <<2, 0 - 1, 0>>
  /\ fundamental[1][1] = <<1, 0, 2>>

One ==
  <<1, 1>>

Zero ==
  <<0, 1>>

\* C14: get_ipf_color maps the columns of color_corners, (0,0,1), (1,0,1)
\* and (1,1,1), onto pure red, green and blue: color_mapper times
\* color_corners is the identity and to_fundamental leaves them unchanged.
C14_CornersToPureColors ==
  called = "get_ipf_color" =>
     /\ Dot(color_mapper, color_corners) =
          << <<1, 0, 0>>, <<0, 1, 0>>, <<0, 0, 1>> >>
     /\ \A e \in Elements(vectors) :
          LET v == vectors[e[1]][e[2]]
              o == rgb_mapped[e[1]][e[2]]
          IN /\ v = <<0, 0, 1>> => o = <<One, Zero, Zero>>
             /\ v = <<1, 0, 1>> => o = <<Zero, One, Zero>>
             /\ v = <<1, 1, 1>> => o = <<Zero, Zero, One>>
             /\ v \in {<<0, 0, 1>>, <<1, 0, 1>>, <<1, 1, 1>>} =>
                  fundamental[e[1]][e[2]] = v

\* C14 witness: red and green returned for an array of two corner vectors.
C14_Witness ==
  /\ called = "get_ipf_color"
  /\ vectors = << << <<0, 0, 1>> >>, << <<1, 0, 1>> >> >>
  /\ rgb_mapped = << << <<One, Zero, Zero>> >>, << <<Zero, One, Zero>> >> >>

====
